---- MODULE Spec2Model ----
(***************************************************************************)
(* Model of the resolution cache (src/src/cache.rs), its source resolvers  *)
(* (src/src/apis.rs, src/src/history.rs) and the per-log enrichment        *)
(* (examine_log in src/src/history.rs).                                    *)
(*                                                                         *)
(* A Rust String is a sequence of ASCII codes, a byte string (H160, H256,  *)
(* bytecode) a sequence of bytes, a Vec a sequence.  Option and Result are *)
(* records with a flag.                                                    *)
(***************************************************************************)
EXTENDS Integers, Sequences, FiniteSets, TLC

VARIABLES
    cache,      \* AddressHistory.cache: [signatures, nametags, abis], each a map key -> <<VisitNote, value>>
    last,       \* the latest call of a Cache method: arguments, what the sources held, result
    fetches,    \* per map and key: how often the fetch function was invoked for the key
    stored,     \* per map and key: how often an entry was inserted for the key
    event,      \* the latest call of examine_log: the log, what the sources held, result
    transactions,   \* AddressHistory.transactions: the list of TxInfo
    stage       \* the latest call of a pipeline stage: arguments, requests, result

vars == <<cache, last, fetches, stored, event, transactions, stage>>

-----------------------------------------------------------------------------
(* Bounds of the model and constants of the program *)

\* longest result list the remote signature directory answers with
MaxResults == 2
\* most keys a run of the cache's methods looks up for the first time
MaxEntries == 2
\* the fetch and store counters stop counting here
MaxCount == 3

\* an H160 address has 20 bytes
AddrBytes == 20
\* an H256 topic has 32 bytes
TopicBytes == 32
\* examine_log keeps the first 8 hex digits (4 bytes) of topic[0]
SigKeyLen == 8

-----------------------------------------------------------------------------
(* Option, Result, strings *)

None == [some |-> FALSE, val |-> <<>>]
Some(v) == [some |-> TRUE, val |-> v]
Ok(v) == [ok |-> TRUE, val |-> v]
Err == [ok |-> FALSE, val |-> <<>>]

\* "0x"
Str0x == <<48, 120>>
\* "TODO: Pull decompiled-ABI from file"
StrTodoDecompiled ==
    <<84, 79, 68, 79, 58, 32, 80, 117, 108, 108, 32, 100, 101, 99, 111, 109, 112, 105,
      108, 101, 100, 45, 65, 66, 73, 32, 102, 114, 111, 109, 32, 102, 105, 108, 101>>
\* "TODO, get TODD-ABIs"
StrTodoTodd ==
    <<84, 79, 68, 79, 44, 32, 103, 101, 116, 32, 84, 79, 68, 68, 45, 65, 66, 73, 115>>
\* "Contract: "
StrContract == <<67, 111, 110, 116, 114, 97, 99, 116, 58, 32>>
\* "metadata.json"
StrMetadataJson == <<109, 101, 116, 97, 100, 97, 116, 97, 46, 106, 115, 111, 110>>
\* "decompiled/"
StrDecompiledDir == <<100, 101, 99, 111, 109, 112, 105, 108, 101, 100, 47>>

\* one lower-case hex digit, as hex::encode writes it
HexChar(n) == IF n < 10 THEN 48 + n ELSE 87 + n

\* hex::encode: two lower-case hex digits per byte, no prefix
hex_encode(b) ==
    [i \in 1..(2 * Len(b)) |->
        IF i % 2 = 1 THEN HexChar(b[(i + 1) \div 2] \div 16)
                     ELSE HexChar(b[i \div 2] % 16)]

\* str::trim_start_matches("0x"): drops every leading repetition of "0x"
RECURSIVE TrimStart0x(_)
TrimStart0x(s) ==
    IF Len(s) >= 2 /\ SubSeq(s, 1, 2) = Str0x
    THEN TrimStart0x(SubSeq(s, 3, Len(s)))
    ELSE s

\* concatenation of a list of strings (String::extend(Vec<String>))
RECURSIVE Concat(_)
Concat(ss) == IF ss = <<>> THEN <<>> ELSE Head(ss) \o Concat(Tail(ss))

\* HashMap::insert
\* mutant: the insert leaves the map with the one key
Insert_alone(m, k, v) == [x \in {k} |-> v]

Insert(m, k, v) == [x \in (DOMAIN m) \cup {k} |-> IF x = k THEN v ELSE m[x]]

\* a counter that stops at MaxCount
Bump(n) == IF n < MaxCount THEN n + 1 ELSE n

-----------------------------------------------------------------------------
(* The inputs: addresses, topics, logs, and what the external sources answer *)

Modes == {"AvoidApis", "UseApis"}

\* 0xabab...ab and 0x0000...01
AddrA == [i \in 1..AddrBytes |-> 171]
AddrB == [i \in 1..AddrBytes |-> IF i = AddrBytes THEN 1 ELSE 0]
Addresses == {AddrA, AddrB}

\* TopicA and TopicB share their first four bytes (ddf252ad), TopicC starts e1fffcc4
TopicA == [i \in 1..TopicBytes |-> IF i <= 4 THEN <<221, 242, 82, 173>>[i] ELSE 27]
TopicB == [i \in 1..TopicBytes |-> IF i <= 4 THEN <<221, 242, 82, 173>>[i] ELSE 99]
TopicC == [i \in 1..TopicBytes |-> IF i <= 4 THEN <<225, 255, 252, 196>>[i] ELSE 5]
Topics == {TopicA, TopicB, TopicC}

\* "T()", "U()", "V()", "W()": text signatures
TextT == <<84, 40, 41>>
TextU == <<85, 40, 41>>
TextV == <<86, 40, 41>>
TextW == <<87, 40, 41>>
\* the text signature whose full hash is the topic
TopicText(t) == IF t = TopicA THEN TextT ELSE IF t = TopicB THEN TextU ELSE TextV

\* the sequences over S of length at most n
RECURSIVE SeqsUpTo(_, _)
SeqsUpTo(S, n) ==
    IF n = 0 THEN {<<>>}
    ELSE LET shorter == SeqsUpTo(S, n - 1)
         IN shorter \cup {Append(s, x) : s \in {q \in shorter : Len(q) = n - 1}, x \in S}

\* runtime bytecode returned by eth_getCode
Bytecodes == {<<>>, <<96, 128>>}

\* hex::encode of the byte strings and strings of the model, computed once
HexInputs ==
    Addresses \cup Topics \cup Bytecodes
        \cup {SubSeq(hex_encode(t), 1, SigKeyLen) : t \in Topics}
HexEncoded == [b \in HexInputs |-> hex_encode(b)]
HexEncode(b) == HexEncoded[b]

\* the cache key examine_log derives from topic[0]: s[..8] of its hex encoding
TopicKey(t) == SubSeq(HexEncode(t), 1, SigKeyLen)
SigKeys == {TopicKey(t) : t \in Topics}
AddrKeys == {HexEncode(a) : a \in Addresses}

\* signatures_db.find(sig): a storage fault, or the records of the key; a record's
\* texts_as_strings() decodes to its texts or fails
SigRecord == [texts |-> Ok(<<TextT>>)]
SigRecordBad == [texts |-> Err]
SigDbAnswers ==
    {Err, Ok(<<>>), Ok(<<SigRecord>>), Ok(<<SigRecord, SigRecord>>), Ok(<<SigRecord, SigRecordBad>>)}

\* nametags_db.find(address): likewise, with names and tags per record
\* "Dai", "Stable"
TagRecord == [names |-> Ok(<< <<68, 97, 105>> >>), tags |-> Ok(<< <<83, 116, 97, 98, 108, 101>> >>)]
TagRecordBad == [names |-> Ok(<< <<68, 97, 105>> >>), tags |-> Err]
TagDbAnswers ==
    {Err, Ok(<<>>), Ok(<<TagRecord>>), Ok(<<TagRecord, TagRecord>>), Ok(<<TagRecord, TagRecordBad>>)}

\* the remote signature directory: the request or its JSON decoding fails, or a page
\* of candidates.  For a queried digest the directory may hold the entries of the
\* topics with that digest, and an entry whose hex_signature is the hex encoding of
\* the digest's own ASCII text.
FullCandidate(t) ==
    [text_signature |-> TopicText(t), hex_signature |-> Str0x \o HexEncode(t)]
AsciiCandidate(sig) ==
    [text_signature |-> TextW, hex_signature |-> Str0x \o HexEncode(sig)]
Candidates(sig) ==
    {FullCandidate(t) : t \in {u \in Topics : TopicKey(u) = sig}} \cup {AsciiCandidate(sig)}
FourbytePages ==
    [sig \in SigKeys |->
        {Err} \cup {Ok([results |-> rs]) : rs \in SeqsUpTo(Candidates(sig), MaxResults)}]
FourbyteAnswers(sig) == FourbytePages[sig]

\* the remote ABI registry: the request fails, or a response with a status and a
\* body that decodes to a metadata document or does not
StatusOK == 200
\* {"WETH9.sol":"WETH9"} rendered, and one function of the abi array
DocWeth ==
    [target |-> <<87, 69, 84, 72, 57>>,
     abi |-> << [type |-> <<101, 118, 101, 110, 116>>, stateMutability |-> <<110, 117, 108, 108>>,
                 name |-> <<84>>, inputs |-> <<91, 93>>, outputs |-> <<110, 117, 108, 108>>] >>]
RegistryDown == [sent |-> FALSE, status |-> 0, json |-> Err]
RegistryMatch == [sent |-> TRUE, status |-> StatusOK, json |-> Ok(DocWeth)]
RegistryGarbled == [sent |-> TRUE, status |-> StatusOK, json |-> Err]
RegistryMiss == [sent |-> TRUE, status |-> 404, json |-> Err]
SourcifyAnswers == {RegistryDown, RegistryMatch, RegistryGarbled, RegistryMiss}

-----------------------------------------------------------------------------
(* The source resolvers.  Each takes what the external source answers to the
   request it makes, and returns its Result; the resolvers of the ABI also
   return the requests they made, in order. *)

\* sig_to_text: the texts of all records of the key, concatenated into one String
RECURSIVE SigTexts(_)
SigTexts(val) ==
    IF val = <<>> THEN Ok(<<>>)
    ELSE IF ~Head(val).texts.ok THEN Err
    ELSE LET rest == SigTexts(Tail(val))
         IN IF ~rest.ok THEN Err ELSE Ok(Concat(Head(val).texts.val) \o rest.val)

sig_to_text(sig, find) ==
    IF ~find.ok THEN Err
    ELSE LET s == SigTexts(find.val)
         IN IF ~s.ok THEN Err
            ELSE IF find.val = <<>> THEN Ok(None) ELSE Ok(Some(s.val))

\* address_nametags: the names and tags of all records of the address, in order
RECURSIVE address_nametags_loop(_)
address_nametags_loop(val) ==
    IF val = <<>> THEN Ok(<<>>)
    ELSE IF ~Head(val).names.ok \/ ~Head(val).tags.ok THEN Err
    ELSE LET rest == address_nametags_loop(Tail(val))
         IN IF ~rest.ok THEN Err
            ELSE Ok(Head(val).names.val \o Head(val).tags.val \o rest.val)

\* mutant: an address without records is reported as an error
address_nametags_empty_is_error(address, find) ==
    IF ~find.ok \/ find.val = <<>> THEN Err ELSE address_nametags_loop(find.val)

address_nametags(address, find) ==
    IF ~find.ok THEN Err ELSE address_nametags_loop(find.val)

\* method_from_fourbyte_api: the text of the first candidate whose hex_signature,
\* without "0x", equals hex::encode(topic); topic is the &str the caller passes
RECURSIVE FirstMatch(_, _)
FirstMatch(results, target) ==
    IF results = <<>> THEN None
    ELSE IF TrimStart0x(Head(results).hex_signature) = target
         THEN Some(Head(results).text_signature)
         ELSE FirstMatch(Tail(results), target)

method_from_fourbyte_api(topic, response) ==
    IF ~response.ok THEN Err
    ELSE Ok(FirstMatch(response.val.results, HexEncode(topic)))

\* summary_of_abi_from_json: "Contract: <target>" and one entry per function
RECURSIVE FuncSummaries(_)
FuncSummaries(fs) ==
    IF fs = <<>> THEN <<>>
    ELSE LET f == Head(fs)
         IN <<10, 9>> \o f.type \o <<32>> \o f.stateMutability \o <<32>> \o f.name
            \o <<46, 10, 9, 9, 73, 110, 112, 117, 116, 115, 58, 32>> \o f.inputs
            \o <<10, 9, 9, 79, 117, 116, 112, 117, 116, 115, 58, 32>> \o f.outputs
            \o FuncSummaries(Tail(fs))

summary_of_abi_from_json(metadata) ==
    StrContract \o metadata.target \o FuncSummaries(metadata.abi)

\* h160_to_string, and as_checksummed: the eip55 casing of it stays symbolic
h160_to_string(address) == HexEncode(address)
as_checksummed(address) == <<"eip55", h160_to_string(address)>>

\* mutant: the partial-match endpoint is asked although the full match succeeded
abi_from_sourcify_api_eager(address, full, partial) ==
    LET a == <<as_checksummed(address), StrMetadataJson>>
        req1 == [to |-> "sourcify_full", arg |-> a]
        req2 == [to |-> "sourcify_partial", arg |-> a]
    IN IF ~full.sent THEN [res |-> Err, io |-> <<req1>>]
       ELSE IF full.status = StatusOK
       THEN IF ~full.json.ok THEN [res |-> Err, io |-> <<req1>>]
            ELSE [res |-> Ok(Some(summary_of_abi_from_json(full.json.val))),
                  io |-> <<req1, req2>>]
       ELSE IF ~partial.sent THEN [res |-> Err, io |-> <<req1, req2>>]
       ELSE IF partial.status = StatusOK
       THEN IF ~partial.json.ok THEN [res |-> Err, io |-> <<req1, req2>>]
            ELSE [res |-> Ok(Some(summary_of_abi_from_json(partial.json.val))),
                  io |-> <<req1, req2>>]
       ELSE [res |-> Ok(None), io |-> <<req1, req2>>]

\* abi_from_sourcify_api: the full-match endpoint, then the partial-match endpoint
abi_from_sourcify_api(address, full, partial) ==
    LET a == <<as_checksummed(address), StrMetadataJson>>
        req1 == [to |-> "sourcify_full", arg |-> a]
        req2 == [to |-> "sourcify_partial", arg |-> a]
    IN IF ~full.sent THEN [res |-> Err, io |-> <<req1>>]
       ELSE IF full.status = StatusOK
       THEN IF ~full.json.ok THEN [res |-> Err, io |-> <<req1>>]
            ELSE [res |-> Ok(Some(summary_of_abi_from_json(full.json.val))), io |-> <<req1>>]
       ELSE IF ~partial.sent THEN [res |-> Err, io |-> <<req1, req2>>]
       ELSE IF partial.status = StatusOK
       THEN IF ~partial.json.ok THEN [res |-> Err, io |-> <<req1, req2>>]
            ELSE [res |-> Ok(Some(summary_of_abi_from_json(partial.json.val))),
                  io |-> <<req1, req2>>]
       ELSE [res |-> Ok(None), io |-> <<req1, req2>>]

\* mutant: no decompilation when the registry has no match
get_abi_no_fallback(address, mode, bytecode, full, partial) ==
    IF mode = "UseApis"
    THEN LET abi == abi_from_sourcify_api(address, full, partial)
         IN IF ~abi.res.ok THEN [res |-> Err, io |-> abi.io]
            ELSE [res |-> Ok(abi.res.val), io |-> abi.io]
    ELSE [res |-> Ok(Some(StrTodoTodd)), io |-> <<>>]

\* mutant: AvoidApis runs the decompiler and returns its placeholder
get_abi_decompile_offline(address, mode, bytecode, full, partial) ==
    LET decompile == [to |-> "decompile",
                      arg |-> <<HexEncode(bytecode), StrDecompiledDir, address>>]
    IN IF mode = "UseApis"
       THEN LET abi == abi_from_sourcify_api(address, full, partial)
            IN IF ~abi.res.ok THEN [res |-> Err, io |-> abi.io]
               ELSE IF abi.res.val.some
               THEN [res |-> Ok(Some(abi.res.val.val)), io |-> abi.io]
               ELSE [res |-> Ok(Some(StrTodoDecompiled)), io |-> Append(abi.io, decompile)]
       ELSE [res |-> Ok(Some(StrTodoDecompiled)), io |-> <<decompile>>]

\* get_abi: in UseApis the registry, then the decompiler; in AvoidApis a placeholder
get_abi(address, mode, bytecode, full, partial) ==
    IF mode = "UseApis"
    THEN LET abi == abi_from_sourcify_api(address, full, partial)
         IN IF ~abi.res.ok THEN [res |-> Err, io |-> abi.io]
            ELSE IF abi.res.val.some THEN [res |-> Ok(Some(abi.res.val.val)), io |-> abi.io]
            ELSE [res |-> Ok(Some(StrTodoDecompiled)),
                  io |-> Append(abi.io, [to |-> "decompile",
                                         arg |-> <<HexEncode(bytecode), StrDecompiledDir, address>>])]
    ELSE [res |-> Ok(Some(StrTodoTodd)), io |-> <<>>]

-----------------------------------------------------------------------------
(* The cache.  A method returns the cache after the call, the value returned
   to the caller, how often it invoked its fetch function, how many entries
   it inserted, and the requests made to external sources. *)

\* String::from("") and vec![String::from("")], stored with PriorFailure
EmptyString == <<>>
EmptyTags == <<EmptyString>>

\* HashMap::get(key), as the note the match arms see
Note(m, k) == IF k \in DOMAIN m THEN m[k][1] ELSE "NotVisited"

\* mutant: a value found in the cache is not returned
Hit_absent(c, v) == [cache |-> c, ret |-> None, fetched |-> 0, stores |-> 0, io |-> <<>>]

Hit(c, v) == [cache |-> c, ret |-> v, fetched |-> 0, stores |-> 0, io |-> <<>>]

\* Cache::try_abi after a miss: get_abi, then the insert of its outcome
try_abi_fetch(c, address_string, address, mode, bytecode, full, partial) ==
    LET abi_result == get_abi(address, mode, bytecode, full, partial)
        failure == [cache |-> [c EXCEPT !.abis =
                                Insert(@, address_string, <<"PriorFailure", EmptyString>>)],
                    ret |-> None, fetched |-> 1, stores |-> 1, io |-> abi_result.io]
    IN IF ~abi_result.res.ok THEN failure
       ELSE IF abi_result.res.val.some
       THEN [cache |-> [c EXCEPT !.abis =
                         Insert(@, address_string, <<"PriorSuccess", abi_result.res.val.val>>)],
             ret |-> Some(abi_result.res.val.val),
             fetched |-> 1, stores |-> 1, io |-> abi_result.io]
       ELSE failure

\* mutant: a failed fetch is recorded with the default note
try_abi_default_note(c, address, mode, bytecode, full, partial) ==
    LET address_string == TrimStart0x(HexEncode(address))
        note == Note(c.abis, address_string)
        r == try_abi_fetch(c, address_string, address, mode, bytecode, full, partial)
    IN IF note = "PriorSuccess" THEN Hit(c, Some(c.abis[address_string][2]))
       ELSE IF note = "PriorFailure" THEN Hit(c, None)
       ELSE IF r.ret.some THEN r
       ELSE [r EXCEPT !.cache.abis =
                Insert(c.abis, address_string, <<"NotVisited", EmptyString>>)]

\* mutant: a cached ABI is fetched again when remote sources are allowed
try_abi_refresh(c, address, mode, bytecode, full, partial) ==
    LET address_string == TrimStart0x(HexEncode(address))
        note == Note(c.abis, address_string)
    IN IF note = "PriorSuccess" /\ mode = "AvoidApis"
       THEN Hit(c, Some(c.abis[address_string][2]))
       ELSE IF note = "PriorFailure" THEN Hit(c, None)
       ELSE try_abi_fetch(c, address_string, address, mode, bytecode, full, partial)

\* mutant: an error of get_abi is returned as None without an entry
try_abi_unrecorded_error(c, address, mode, bytecode, full, partial) ==
    LET address_string == TrimStart0x(HexEncode(address))
        note == Note(c.abis, address_string)
        r == try_abi_fetch(c, address_string, address, mode, bytecode, full, partial)
    IN IF note = "PriorSuccess" THEN Hit(c, Some(c.abis[address_string][2]))
       ELSE IF note = "PriorFailure" THEN Hit(c, None)
       ELSE IF r.ret.some THEN r
       ELSE [r EXCEPT !.cache = c, !.stores = 0]

\* Cache::try_abi
try_abi(c, address, mode, bytecode, full, partial) ==
    LET address_string == TrimStart0x(HexEncode(address))
        note == Note(c.abis, address_string)
    IN IF note = "PriorSuccess" THEN Hit(c, Some(c.abis[address_string][2]))
       ELSE IF note = "PriorFailure" THEN Hit(c, None)
       ELSE try_abi_fetch(c, address_string, address, mode, bytecode, full, partial)

\* Cache::try_sig after a miss: the source of the mode, then the insert of its outcome
try_sig_fetch(c, sig, mode, find, response) ==
    LET text_result == IF mode = "AvoidApis" THEN sig_to_text(sig, find)
                       ELSE method_from_fourbyte_api(sig, response)
        io == IF mode = "AvoidApis"
              THEN <<[to |-> "signatures_db", arg |-> sig]>>
              ELSE <<[to |-> "fourbyte", arg |-> Str0x \o sig]>>
        failure == [cache |-> [c EXCEPT !.signatures =
                                Insert(@, sig, <<"PriorFailure", EmptyString>>)],
                    ret |-> None, fetched |-> 1, stores |-> 1, io |-> io]
    IN IF ~text_result.ok THEN failure
       ELSE IF text_result.val.some
       THEN [cache |-> [c EXCEPT !.signatures =
                         Insert(@, sig, <<"PriorSuccess", text_result.val.val>>)],
             ret |-> Some(text_result.val.val),
             fetched |-> 1, stores |-> 1, io |-> io]
       ELSE failure

\* mutant: a prior failure is looked up again
try_sig_retry_failure(c, sig, mode, find, response) ==
    IF Note(c.signatures, sig) = "PriorSuccess" THEN Hit(c, Some(c.signatures[sig][2]))
    ELSE try_sig_fetch(c, sig, mode, find, response)

\* mutant: a source that finds nothing leaves no entry
try_sig_unrecorded_none(c, sig, mode, find, response) ==
    LET note == Note(c.signatures, sig)
        text_result == IF mode = "AvoidApis" THEN sig_to_text(sig, find)
                       ELSE method_from_fourbyte_api(sig, response)
        r == try_sig_fetch(c, sig, mode, find, response)
    IN IF note = "PriorSuccess" THEN Hit(c, Some(c.signatures[sig][2]))
       ELSE IF note = "PriorFailure" THEN Hit(c, None)
       ELSE IF text_result.ok /\ ~text_result.val.some
       THEN [r EXCEPT !.cache = c, !.stores = 0]
       ELSE r

\* mutant: the key is stored in place of the text
try_sig_store_key(c, sig, mode, find, response) ==
    LET note == Note(c.signatures, sig)
        r == try_sig_fetch(c, sig, mode, find, response)
    IN IF note = "PriorSuccess" THEN Hit(c, Some(c.signatures[sig][2]))
       ELSE IF note = "PriorFailure" THEN Hit(c, None)
       ELSE IF r.ret.some
       THEN [r EXCEPT !.cache.signatures = Insert(c.signatures, sig, <<"PriorSuccess", sig>>)]
       ELSE r

\* mutant: the outcome of a successful fetch is returned without an entry
try_sig_unrecorded_text(c, sig, mode, find, response) ==
    LET note == Note(c.signatures, sig)
        r == try_sig_fetch(c, sig, mode, find, response)
    IN IF note = "PriorSuccess" THEN Hit(c, Some(c.signatures[sig][2]))
       ELSE IF note = "PriorFailure" THEN Hit(c, None)
       ELSE IF r.ret.some THEN [r EXCEPT !.cache = c, !.stores = 0]
       ELSE r

\* mutant: the local index is asked when the remote directory gives no text
try_sig_fallback(c, sig, mode, find, response) ==
    LET note == Note(c.signatures, sig)
        r == try_sig_fetch(c, sig, mode, find, response)
        local == try_sig_fetch(c, sig, "AvoidApis", find, response)
    IN IF note = "PriorSuccess" THEN Hit(c, Some(c.signatures[sig][2]))
       ELSE IF note = "PriorFailure" THEN Hit(c, None)
       ELSE IF mode = "UseApis" /\ ~r.ret.some THEN [local EXCEPT !.io = r.io \o local.io]
       ELSE r

\* Cache::try_sig
try_sig(c, sig, mode, find, response) ==
    LET note == Note(c.signatures, sig)
    IN IF note = "PriorSuccess" THEN Hit(c, Some(c.signatures[sig][2]))
       ELSE IF note = "PriorFailure" THEN Hit(c, None)
       ELSE try_sig_fetch(c, sig, mode, find, response)

\* Cache::try_nametags after a miss: address_nametags, then the insert of its outcome
try_nametags_fetch(c, addr_hex, find) ==
    LET n == address_nametags(addr_hex, find)
        io == <<[to |-> "nametags_db", arg |-> addr_hex]>>
    IN IF n.ok
       THEN [cache |-> [c EXCEPT !.nametags =
                         Insert(@, addr_hex, <<"PriorSuccess", n.val>>)],
             ret |-> Some(n.val), fetched |-> 1, stores |-> 1, io |-> io]
       ELSE [cache |-> [c EXCEPT !.nametags =
                         Insert(@, addr_hex, <<"PriorFailure", EmptyTags>>)],
             ret |-> None, fetched |-> 1, stores |-> 1, io |-> io]

\* mutant: a prior failure is looked up again
try_nametags_retry_failure(c, address, find) ==
    LET addr_hex == HexEncode(address)
    IN IF Note(c.nametags, addr_hex) = "PriorSuccess"
       THEN Hit(c, Some(c.nametags[addr_hex][2]))
       ELSE try_nametags_fetch(c, addr_hex, find)

\* mutant: the value stored with a prior failure is returned
try_nametags_surface_failure(c, address, find) ==
    LET addr_hex == HexEncode(address)
    IN IF Note(c.nametags, addr_hex) \in {"PriorSuccess", "PriorFailure"}
       THEN Hit(c, Some(c.nametags[addr_hex][2]))
       ELSE try_nametags_fetch(c, addr_hex, find)

\* Cache::try_nametags
try_nametags(c, address, find) ==
    LET addr_hex == HexEncode(address)
        note == Note(c.nametags, addr_hex)
    IN IF note = "PriorSuccess" THEN Hit(c, Some(c.nametags[addr_hex][2]))
       ELSE IF note = "PriorFailure" THEN Hit(c, None)
       ELSE try_nametags_fetch(c, addr_hex, find)

-----------------------------------------------------------------------------
(* The state machine of the cache: any sequence of calls of its three methods *)

\* Cache::default(): three empty maps
EmptyMap == [k \in {} |-> <<"NotVisited", EmptyString>>]
CacheDefault == [signatures |-> EmptyMap, nametags |-> EmptyMap, abis |-> EmptyMap]

CounterKeys == ({"signatures"} \X SigKeys) \cup ({"nametags", "abis"} \X AddrKeys)

NoCall == [op |-> "none", key |-> <<>>, mode |-> "none", would |-> Err,
           ret |-> None, fetched |-> 0, stores |-> 0, io |-> <<>>]
NoEvent == [log |-> "none"]
NoStage == [op |-> "none"]

Init ==
    /\ cache = CacheDefault
    /\ last = NoCall
    /\ fetches = [mk \in CounterKeys |-> 0]
    /\ stored = [mk \in CounterKeys |-> 0]
    /\ event = NoEvent
    /\ transactions = <<>>
    /\ stage = NoStage

\* The bookkeeping of one call of the method op on key, of map m, with outcome r;
\* would is what the fetch function of the method returns for these sources.
Called(op, m, key, mode, would, r) ==
    /\ cache' = r.cache
    /\ last' = [op |-> op, key |-> key, mode |-> mode, would |-> would,
                ret |-> r.ret, fetched |-> r.fetched, stores |-> r.stores, io |-> r.io]
    /\ fetches' = IF r.fetched > 0 THEN [fetches EXCEPT ![<<m, key>>] = Bump(@)] ELSE fetches
    /\ stored' = IF r.stores > 0 THEN [stored EXCEPT ![<<m, key>>] = Bump(@)] ELSE stored

\* What the sources hold when a method is called.  For a key that has an entry
\* two answers stand for all: one that holds a value and one that fails.
\* For a signature the source of the mode is drawn, the other one holds a text.
SigSources(sig, mode) ==
    IF mode = "AvoidApis"
    THEN {[find |-> f, response |-> Ok([results |-> <<AsciiCandidate(sig)>>])] :
            f \in IF sig \in DOMAIN cache.signatures THEN {Err, Ok(<<SigRecord>>)}
                  ELSE SigDbAnswers}
    ELSE {[find |-> Ok(<<SigRecord>>), response |-> p] :
            p \in IF sig \in DOMAIN cache.signatures
                  THEN {Err, Ok([results |-> <<AsciiCandidate(sig)>>])}
                  ELSE FourbyteAnswers(sig)}

\* the partial-match endpoint is drawn when it is asked
AbiSources(address, mode) ==
    IF mode = "AvoidApis" \/ HexEncode(address) \in DOMAIN cache.abis
    THEN {[full |-> f, partial |-> f] : f \in {x \in SourcifyAnswers : ~x.sent \/ x.json.ok}}
    ELSE {[full |-> f, partial |-> p] :
            f \in {x \in SourcifyAnswers : ~x.sent \/ x.status = StatusOK},
            p \in {x \in SourcifyAnswers : x.json.ok}}
         \cup {[full |-> f, partial |-> p] :
                  f \in {x \in SourcifyAnswers : x.sent /\ x.status # StatusOK},
                  p \in SourcifyAnswers}

TagSources(address) ==
    IF HexEncode(address) \in DOMAIN cache.nametags THEN {Err, Ok(<<TagRecord>>)}
    ELSE TagDbAnswers

\* a lookup that misses is taken while the run has looked up fewer than MaxEntries keys
Entries(c) ==
    Cardinality(DOMAIN c.signatures) + Cardinality(DOMAIN c.nametags)
        + Cardinality(DOMAIN c.abis)
MayLookUp(m, k) == k \in DOMAIN m \/ Entries(cache) < MaxEntries

TrySig ==
    \E sig \in SigKeys, mode \in Modes :
        /\ MayLookUp(cache.signatures, sig)
        /\ \E s \in SigSources(sig, mode) :
            \E r \in {try_sig(cache, sig, mode, s.find, s.response)} :
                /\ Called("try_sig", "signatures", sig, mode,
                          IF mode = "AvoidApis" THEN sig_to_text(sig, s.find)
                          ELSE method_from_fourbyte_api(sig, s.response), r)
                /\ UNCHANGED <<event, transactions, stage>>

TryAbi ==
    \E address \in Addresses, mode \in Modes, bytecode \in Bytecodes :
        /\ MayLookUp(cache.abis, HexEncode(address))
        /\ \E s \in AbiSources(address, mode) :
            \E r \in {try_abi(cache, address, mode, bytecode, s.full, s.partial)} :
                /\ Called("try_abi", "abis", HexEncode(address), mode,
                          get_abi(address, mode, bytecode, s.full, s.partial).res, r)
                /\ UNCHANGED <<event, transactions, stage>>

TryNametags ==
    \E address \in Addresses :
        /\ MayLookUp(cache.nametags, HexEncode(address))
        /\ \E find \in TagSources(address) :
            \E r \in {try_nametags(cache, address, find)} :
                /\ Called("try_nametags", "nametags", HexEncode(address), "none",
                          address_nametags(HexEncode(address), find), r)
                /\ UNCHANGED <<event, transactions, stage>>

Next == TrySig \/ TryAbi \/ TryNametags

Spec == Init /\ [][Next]_vars

-----------------------------------------------------------------------------
(* The resolution of ABIs: calls of try_abi with every answer of the two
   endpoints of the registry, which the call records. *)

ResolveAbi ==
    \E address \in Addresses, mode \in Modes, bytecode \in Bytecodes,
       full \in SourcifyAnswers, partial \in SourcifyAnswers :
        \E r \in {try_abi(cache, address, mode, bytecode, full, partial)} :
            /\ cache' = r.cache
            /\ last' = [op |-> "try_abi", key |-> HexEncode(address), mode |-> mode,
                        would |-> get_abi(address, mode, bytecode, full, partial).res,
                        ret |-> r.ret, fetched |-> r.fetched, stores |-> r.stores,
                        io |-> r.io, address |-> address, bytecode |-> bytecode,
                        full |-> full, partial |-> partial]
            /\ fetches' = IF r.fetched > 0
                          THEN [fetches EXCEPT ![<<"abis", HexEncode(address)>>] = Bump(@)]
                          ELSE fetches
            /\ stored' = IF r.stores > 0
                         THEN [stored EXCEPT ![<<"abis", HexEncode(address)>>] = Bump(@)]
                         ELSE stored
            /\ UNCHANGED <<event, transactions, stage>>

NextAbi == ResolveAbi

SpecAbi == Init /\ [][NextAbi]_vars

-----------------------------------------------------------------------------
(* The enrichment of logs: examine_log, called by decode_logs for every log of
   a receipt, with the cache of the run. *)

\* most cache entries a run of examine_log calls stores
MaxCached == 4

\* "TODO: Path to source code."
StrTodoSourcePath ==
    <<84, 79, 68, 79, 58, 32, 80, 97, 116, 104, 32, 116, 111, 32, 115, 111, 117, 114, 99,
      101, 32, 99, 111, 100, 101, 46>>

\* a metadata link found in the bytecode
LinkIpfs == [kind |-> "ipfs", cid |-> <<81, 109>>]

\* the logs of receipts: an address and up to two topics
Logs ==
    {[address |-> a, topics |-> ts] :
        a \in Addresses, ts \in {<<>>, <<TopicA>>, <<TopicB>>, <<TopicC>>}}
        \cup {[address |-> AddrA, topics |-> <<TopicA, TopicC>>]}

\* eth_getCode and cid_from_runtime_bytecode: the call fails, or returns the
\* bytecode, from which a link, no link or an error is extracted
NodeDown == [code |-> Err, cid |-> Err]
NodeEmpty == [code |-> Ok(<<>>), cid |-> Ok(None)]
NodeLinked == [code |-> Ok(<<96, 128>>), cid |-> Ok(Some(LinkIpfs))]
NodeUnlinked == [code |-> Ok(<<96, 128>>), cid |-> Err]

\* a topic other than t: the one with the same first four bytes where there is one
OtherTopic(t) == IF t = TopicA THEN TopicB ELSE TopicA

\* a page of the directory that holds the entry of the topic
GoodPage(t) == Ok([results |-> <<FullCandidate(t)>>])

World(node, full, partial, find, results, tagfind) ==
    [node |-> node, full |-> full, partial |-> partial, find |-> find,
     response |-> results, tagfind |-> tagfind]

\* What the node, the registry, the directory and the local index hold when the
\* log with topic[0] = t is examined: every source holds the data; none holds
\* any; every source fails; the node fails; the data is held under a partial
\* match, after a second candidate and with a second record, by a contract
\* whose bytecode gives no link; the data is
\* garbled; and one world for each single source failing while the others hold
\* the data.
WorldHeld(t) ==
    World(NodeLinked, RegistryMatch, RegistryMatch, Ok(<<SigRecord>>), GoodPage(t),
          Ok(<<TagRecord>>))
WorldEmpty ==
    World(NodeEmpty, RegistryMiss, RegistryMiss, Ok(<<>>), Ok([results |-> <<>>]), Ok(<<>>))
WorldFailing == World(NodeUnlinked, RegistryDown, RegistryDown, Err, Err, Err)
WorldNodeDown(t) ==
    World(NodeDown, RegistryMatch, RegistryMatch, Ok(<<SigRecord>>), GoodPage(t),
          Ok(<<TagRecord>>))
Worlds(t) ==
    {WorldHeld(t), WorldEmpty, WorldFailing, WorldNodeDown(t),
     World(NodeUnlinked, RegistryMiss, RegistryMatch, Ok(<<SigRecord, SigRecord>>),
           Ok([results |-> <<FullCandidate(OtherTopic(t)), FullCandidate(t)>>]),
           Ok(<<TagRecord, TagRecord>>)),
     World(NodeLinked, RegistryGarbled, RegistryMatch, Ok(<<SigRecord, SigRecordBad>>),
           Ok([results |-> <<AsciiCandidate(TopicKey(t))>>]),
           Ok(<<TagRecord, TagRecordBad>>)),
     World(NodeLinked, RegistryMiss, RegistryDown, Ok(<<SigRecord>>), GoodPage(t),
           Ok(<<TagRecord>>)),
     World(NodeLinked, RegistryMatch, RegistryMatch, Err, Err, Ok(<<TagRecord>>)),
     World(NodeLinked, RegistryMatch, RegistryMatch, Ok(<<SigRecord>>), GoodPage(t), Err)}

\* mutant: the signature is looked up only when the ABI was resolved
examine_log_chained(log, mode, c, node, full, partial, find, response, tagfind) ==
    IF log.topics = <<>>
    THEN [res |-> Ok(None), cache |-> c, io |-> <<>>, calls |-> <<>>]
    ELSE
    LET topic_zero == SubSeq(HexEncode(log.topics[1]), 1, SigKeyLen)
        getCode == [to |-> "eth_getCode", arg |-> log.address]
    IN IF ~node.code.ok
       THEN [res |-> Err, cache |-> c, io |-> <<getCode>>, calls |-> <<>>]
       ELSE
       LET bytecode == node.code.val
           cid == IF node.cid.ok THEN node.cid.val ELSE None
           abi == try_abi(c, log.address, mode, bytecode, full, partial)
           sig_text == IF abi.ret.some
                       THEN try_sig(abi.cache, topic_zero, mode, find, response)
                       ELSE Hit(abi.cache, None)
           nametags == try_nametags(sig_text.cache, log.address, tagfind)
           contract == [address |-> h160_to_string(log.address),
                        source_code_metadata_link |-> cid,
                        bytecode |-> bytecode,
                        source_code |-> StrTodoSourcePath,
                        abi |-> abi.ret,
                        decompiled |-> FALSE]
       IN [res |-> Ok(Some([raw |-> log,
                            contract |-> contract,
                            topic_zero |-> topic_zero,
                            name |-> sig_text.ret,
                            nametags |-> nametags.ret])),
           cache |-> nametags.cache,
           io |-> <<getCode>> \o abi.io \o sig_text.io \o nametags.io,
           calls |-> <<[abi EXCEPT !.cache = "abis"],
                       [sig_text EXCEPT !.cache = "signatures"],
                       [nametags EXCEPT !.cache = "nametags"]>>]

\* mutant: a bytecode from which no metadata link can be read ends the call
examine_log_link_required(log, mode, c, node, full, partial, find, response, tagfind) ==
    IF log.topics = <<>>
    THEN [res |-> Ok(None), cache |-> c, io |-> <<>>, calls |-> <<>>]
    ELSE
    LET topic_zero == SubSeq(HexEncode(log.topics[1]), 1, SigKeyLen)
        getCode == [to |-> "eth_getCode", arg |-> log.address]
    IN IF ~node.code.ok \/ ~node.cid.ok
       THEN [res |-> Err, cache |-> c, io |-> <<getCode>>, calls |-> <<>>]
       ELSE
       LET bytecode == node.code.val
           abi == try_abi(c, log.address, mode, bytecode, full, partial)
           sig_text == try_sig(abi.cache, topic_zero, mode, find, response)
           nametags == try_nametags(sig_text.cache, log.address, tagfind)
           contract == [address |-> h160_to_string(log.address),
                        source_code_metadata_link |-> node.cid.val,
                        bytecode |-> bytecode,
                        source_code |-> StrTodoSourcePath,
                        abi |-> abi.ret,
                        decompiled |-> FALSE]
       IN [res |-> Ok(Some([raw |-> log,
                            contract |-> contract,
                            topic_zero |-> topic_zero,
                            name |-> sig_text.ret,
                            nametags |-> nametags.ret])),
           cache |-> nametags.cache,
           io |-> <<getCode>> \o abi.io \o sig_text.io \o nametags.io,
           calls |-> <<[abi EXCEPT !.cache = "abis"],
                       [sig_text EXCEPT !.cache = "signatures"],
                       [nametags EXCEPT !.cache = "nametags"]>>]

\* mutant: the bytecode is not fetched for an address whose ABI is in the cache
examine_log_cached_code(log, mode, c, node, full, partial, find, response, tagfind) ==
    IF log.topics = <<>>
    THEN [res |-> Ok(None), cache |-> c, io |-> <<>>, calls |-> <<>>]
    ELSE
    LET topic_zero == SubSeq(HexEncode(log.topics[1]), 1, SigKeyLen)
        getCode == IF HexEncode(log.address) \in DOMAIN c.abis THEN <<>>
                   ELSE <<[to |-> "eth_getCode", arg |-> log.address]>>
    IN IF ~node.code.ok
       THEN [res |-> Err, cache |-> c, io |-> getCode, calls |-> <<>>]
       ELSE
       LET bytecode == node.code.val
           cid == IF node.cid.ok THEN node.cid.val ELSE None
           abi == try_abi(c, log.address, mode, bytecode, full, partial)
           sig_text == try_sig(abi.cache, topic_zero, mode, find, response)
           nametags == try_nametags(sig_text.cache, log.address, tagfind)
           contract == [address |-> h160_to_string(log.address),
                        source_code_metadata_link |-> cid,
                        bytecode |-> bytecode,
                        source_code |-> StrTodoSourcePath,
                        abi |-> abi.ret,
                        decompiled |-> FALSE]
       IN [res |-> Ok(Some([raw |-> log,
                            contract |-> contract,
                            topic_zero |-> topic_zero,
                            name |-> sig_text.ret,
                            nametags |-> nametags.ret])),
           cache |-> nametags.cache,
           io |-> getCode \o abi.io \o sig_text.io \o nametags.io,
           calls |-> <<[abi EXCEPT !.cache = "abis"],
                       [sig_text EXCEPT !.cache = "signatures"],
                       [nametags EXCEPT !.cache = "nametags"]>>]

\* examine_log: the enriched event of a log, the cache after it, the requests
\* made and the outcomes of the three lookups
examine_log(log, mode, c, node, full, partial, find, response, tagfind) ==
    IF log.topics = <<>>
    THEN [res |-> Ok(None), cache |-> c, io |-> <<>>, calls |-> <<>>]
    ELSE
    LET topic_zero == SubSeq(HexEncode(log.topics[1]), 1, SigKeyLen)
        getCode == [to |-> "eth_getCode", arg |-> log.address]
    IN IF ~node.code.ok
       THEN [res |-> Err, cache |-> c, io |-> <<getCode>>, calls |-> <<>>]
       ELSE
       LET bytecode == node.code.val
           cid == IF node.cid.ok THEN node.cid.val ELSE None
           address == h160_to_string(log.address)
           abi == try_abi(c, log.address, mode, bytecode, full, partial)
           sig_text == try_sig(abi.cache, topic_zero, mode, find, response)
           nametags == try_nametags(sig_text.cache, log.address, tagfind)
           contract == [address |-> address,
                        source_code_metadata_link |-> cid,
                        bytecode |-> bytecode,
                        source_code |-> StrTodoSourcePath,
                        abi |-> abi.ret,
                        decompiled |-> FALSE]
       IN [res |-> Ok(Some([raw |-> log,
                            contract |-> contract,
                            topic_zero |-> topic_zero,
                            name |-> sig_text.ret,
                            nametags |-> nametags.ret])),
           cache |-> nametags.cache,
           io |-> <<getCode>> \o abi.io \o sig_text.io \o nametags.io,
           calls |-> <<[abi EXCEPT !.cache = "abis"],
                       [sig_text EXCEPT !.cache = "signatures"],
                       [nametags EXCEPT !.cache = "nametags"]>>]

\* the counters after the lookups of one examine_log call
Counted(counter, calls, keys, field) ==
    [mk \in CounterKeys |->
        IF \E i \in 1..Len(calls) :
              mk = <<calls[i].cache, keys[i]>> /\ calls[i][field] > 0
        THEN Bump(counter[mk]) ELSE counter[mk]]

\* the keys a log is looked up under, in the order of the lookups
LogKeys(log) ==
    <<HexEncode(log.address), TopicKey(log.topics[1]), HexEncode(log.address)>>

\* the entries the lookups of a log add to the cache
NewEntries(log) ==
    IF log.topics = <<>> THEN 0
    ELSE (IF LogKeys(log)[1] \in DOMAIN cache.abis THEN 0 ELSE 1)
         + (IF LogKeys(log)[2] \in DOMAIN cache.signatures THEN 0 ELSE 1)
         + (IF LogKeys(log)[3] \in DOMAIN cache.nametags THEN 0 ELSE 1)

\* what the sources hold when a log is examined; no source is asked about a log
\* that has no topic
LogWorlds(log) ==
    IF log.topics = <<>>
    THEN {World(NodeLinked, RegistryMatch, RegistryMatch, Ok(<<SigRecord>>),
                Ok([results |-> <<>>]), Ok(<<TagRecord>>))}
    ELSE Worlds(log.topics[1])

\* the page the directory answered with, when it was asked
Answered(io, response) ==
    IF \E i \in 1..Len(io) : io[i].to = "fourbyte" THEN Some(response) ELSE None

\* the answers the sources gave during a call; a source that was not asked
\* counts as silent
Asked(io, source) == \E i \in 1..Len(io) : io[i].to = source
Heard(io, w) ==
    [node |-> IF Asked(io, "eth_getCode") THEN w.node ELSE NodeDown,
     full |-> IF Asked(io, "sourcify_full") THEN w.full ELSE RegistryDown,
     partial |-> IF Asked(io, "sourcify_partial") THEN w.partial ELSE RegistryDown,
     find |-> IF Asked(io, "signatures_db") THEN w.find ELSE Err,
     response |-> IF Asked(io, "fourbyte") THEN w.response ELSE Err,
     tagfind |-> IF Asked(io, "nametags_db") THEN w.tagfind ELSE Err]

ExamineLog ==
    \E log \in Logs, mode \in Modes :
        /\ Entries(cache) + NewEntries(log) <= MaxCached
        /\ \E w \in LogWorlds(log) :
            \E r \in {examine_log(log, mode, cache, w.node, w.full, w.partial,
                                  w.find, w.response, w.tagfind)} :
                /\ cache' = r.cache
                /\ event' = [log |-> log, mode |-> mode,
                             response |-> Answered(r.io, w.response),
                             world |-> Heard(r.io, w),
                             res |-> r.res, io |-> r.io, calls |-> r.calls]
                /\ fetches' = IF r.calls = <<>> THEN fetches
                              ELSE Counted(fetches, r.calls, LogKeys(log), "fetched")
                /\ stored' = IF r.calls = <<>> THEN stored
                             ELSE Counted(stored, r.calls, LogKeys(log), "stores")
                /\ UNCHANGED <<last, transactions, stage>>

NextEnrich == ExamineLog

SpecEnrich == Init /\ [][NextEnrich]_vars

-----------------------------------------------------------------------------
(* The pipeline of AddressHistory: get_transaction_ids, get_transaction_data,
   get_receipts and decode_logs, callable in any order.  The chain holds three
   transactions; what varies is the index's answer and which request fails. *)

\* longest transaction list of a run
MaxTxs == 3
\* largest cap_num given to a stage
MaxCap == 0

\* the transactions of the chain, by location (block, index); the transaction
\* at location n has hash n
Locations == {1, 2, 3}
LogOf(a, ts) == [address |-> a, topics |-> ts]
LogsAt(loc) ==
    CASE loc = 1 -> <<LogOf(AddrB, <<>>), LogOf(AddrA, <<TopicA>>)>>
      [] loc = 2 -> <<LogOf(AddrA, <<TopicB>>)>>
      [] OTHER -> <<LogOf(AddrB, <<TopicC, TopicA>>)>>
Transaction(loc) == [hash |-> loc]
TransactionReceipt(loc) == [transaction_hash |-> loc, logs |-> LogsAt(loc)]

\* appearances_db.find(address): a storage fault, or records that each hold a
\* list of appearances
AppearanceAnswers == {Err, Ok(<<>>), Ok(<< <<3>> >>), Ok(<< <<1, 2>>, <<3>> >>)}

\* cap_num: None or Some(c)
Caps == {None} \cup {Some(c) : c \in 0..MaxCap}

\* mutant: the loop breaks at the first index i (from 0) with i >= cap
Visited_exclusive(len, cap_num) ==
    IF cap_num.some /\ len > cap_num.val THEN cap_num.val ELSE len

\* the number of items a stage's loop visits: it breaks at the first index
\* i (from 0) with i > cap
Visited(len, cap_num) ==
    IF cap_num.some /\ len > cap_num.val + 1 THEN cap_num.val + 1 ELSE len

\* mutant: the description is not stored in the TxInfo
TxInfo_undescribed(location, description, receipt, events) ==
    [location |-> location, description |-> None, receipt |-> receipt,
     events |-> events]

TxInfo(location, description, receipt, events) ==
    [location |-> location, description |-> description, receipt |-> receipt,
     events |-> events]

\* mutant: the items the loop did not keep stay in the list, behind the others
Replaced_appended(ok, old, txs_with_data) ==
    IF ok THEN txs_with_data \o SubSeq(old, Len(txs_with_data) + 1, Len(old)) ELSE old

\* mutant: the list is replaced by what the loop built, also after an error
Replaced_always(ok, old, txs_with_data) == txs_with_data

\* `self.transactions = txs_with_data` stands after the loop: it is reached
\* only when no `?` inside the loop returned
Replaced(ok, old, txs_with_data) == IF ok THEN txs_with_data ELSE old

\* get_transaction_ids: one TxInfo per appearance, pushed onto the list
GetTransactionIds ==
    \E values \in AppearanceAnswers :
        LET appearances == IF values.ok THEN Concat(values.val) ELSE <<>>
        IN /\ Len(transactions) + Len(appearances) <= MaxTxs
           /\ transactions' = transactions
                \o [i \in 1..Len(appearances) |-> TxInfo(appearances[i], None, None, None)]
           /\ stage' = [op |-> "get_transaction_ids", cap |-> None, mode |-> "none",
                        ok |-> values.ok, before |-> transactions,
                        io |-> <<[to |-> "appearances_db", arg |-> "address"]>>,
                        replies |-> <<IF values.ok THEN "data" ELSE "fails">>]
           /\ UNCHANGED <<cache, last, fetches, stored, event>>

\* what the node answers to the requests of a stage for n items: data for all,
\* or data up to an item for which the request fails or the node has no data;
\* the stage makes no request after that one
RpcAnswers(n) ==
    {[i \in 1..n |-> "data"]}
        \cup {[i \in 1..n |-> IF i = k THEN bad ELSE "data"] :
                 k \in 1..n, bad \in {"fails", "nodata"}}

\* mutant: a request that is not answered with data is made a second time
RECURSIVE Requests_retried(_, _, _, _)
Requests_retried(to, todo, hashes, answers) ==
    IF todo = <<>> THEN <<>>
    ELSE <<[to |-> to, arg |-> hashes[Head(todo)]]>>
         \o (IF answers[Head(todo)] = "data"
             THEN Requests_retried(to, Tail(todo), hashes, answers)
             ELSE <<[to |-> to, arg |-> hashes[Head(todo)]]>>)

\* the requests a stage makes for the items at the indices in todo, up to the
\* first one that is not answered with data
RECURSIVE Requests(_, _, _, _)
Requests(to, todo, hashes, answers) ==
    IF todo = <<>> THEN <<>>
    ELSE <<[to |-> to, arg |-> hashes[Head(todo)]]>>
         \o (IF answers[Head(todo)] = "data"
             THEN Requests(to, Tail(todo), hashes, answers) ELSE <<>>)

\* the answers to the requests a stage made, in order
Replies(todo, answers) ==
    LET made == Requests("any", todo, [i \in DOMAIN answers |-> i], answers)
    IN [k \in 1..Len(made) |-> answers[made[k].arg]]

\* mutant: an item the node has no data for is passed over without error
AllAnswered_soft(todo, answers) ==
    \A k \in 1..Len(todo) : answers[todo[k]] # "fails"

\* `.await?.ok_or_else(..)?`: the stage goes on only while every request is
\* answered with data
AllAnswered(todo, answers) ==
    \A k \in 1..Len(todo) : answers[todo[k]] = "data"

\* the indices in 1..n that satisfy keep, in order
RECURSIVE Indices(_, _)
Indices(n, keep) ==
    IF n = 0 THEN <<>>
    ELSE Indices(n - 1, keep) \o (IF keep[n] THEN <<n>> ELSE <<>>)

\* get_transaction_data: eth_getTransactionByBlockNumberAndIndex per visited item
GetTransactionData ==
    \E cap_num \in Caps :
        LET n == Visited(Len(transactions), cap_num)
        IN \E answers \in RpcAnswers(n) :
            LET todo == Indices(n, [i \in 1..n |-> TRUE])
                ok == AllAnswered(todo, answers)
                txs_with_data ==
                    [i \in 1..n |->
                        TxInfo(transactions[i].location,
                               Some(Transaction(transactions[i].location)), None, None)]
            IN /\ transactions' = Replaced(ok, transactions, txs_with_data)
               /\ stage' = [op |-> "get_transaction_data", cap |-> cap_num, mode |-> "none",
                            ok |-> ok, before |-> transactions,
                            io |-> Requests("eth_getTransactionByBlockNumberAndIndex", todo,
                                            [i \in 1..n |-> transactions[i].location],
                                            answers),
                            replies |-> Replies(todo, answers)]
               /\ UNCHANGED <<cache, last, fetches, stored, event>>

\* get_receipts: eth_getTransactionReceipt per visited item that has a description
GetReceipts ==
    \E cap_num \in Caps :
        LET n == Visited(Len(transactions), cap_num)
            todo == Indices(n, [i \in 1..n |-> transactions[i].description.some])
        IN \E answers \in RpcAnswers(n) :
            LET ok == AllAnswered(todo, answers)
                txs_with_data ==
                    [k \in 1..Len(todo) |->
                        [transactions[todo[k]] EXCEPT
                            !.receipt = Some(TransactionReceipt(
                                            transactions[todo[k]].description.val.hash))]]
            IN /\ \A i \in 1..n : ~transactions[i].description.some => answers[i] = "data"
               /\ transactions' = Replaced(ok, transactions, txs_with_data)
               /\ stage' = [op |-> "get_receipts", cap |-> cap_num, mode |-> "none",
                            ok |-> ok, before |-> transactions,
                            io |-> Requests("eth_getTransactionReceipt", todo,
                                            [i \in 1..n |->
                                                IF transactions[i].description.some
                                                THEN transactions[i].description.val.hash
                                                ELSE 0],
                                            answers),
                            replies |-> Replies(todo, answers)]
               /\ UNCHANGED <<cache, last, fetches, stored, event>>

\* what the sources hold for each log that decode_logs examines
WorldNames == {"held", "failing", "nodedown"}
WorldNamed(name, t) ==
    CASE name = "held" -> WorldHeld(t)
      [] name = "failing" -> WorldFailing
      [] OTHER -> WorldNodeDown(t)

\* the one element of a singleton: binds the result of a call once
Only(S) == CHOOSE x \in S : TRUE

\* the lookups examine_log made for a log, each with the key it used
CountedCalls(log, calls) ==
    [i \in 1..Len(calls) |->
        [cache |-> calls[i].cache, key |-> LogKeys(log)[i],
         fetched |-> calls[i].fetched, stores |-> calls[i].stores]]

\* mutant: the loop over the logs of a receipt ends at the first log without event
RECURSIVE examine_logs_break(_, _, _, _)
examine_logs_break(logs, mode, c, ws) ==
    IF logs = <<>>
    THEN [ok |-> TRUE, events |-> <<>>, cache |-> c, io |-> <<>>, calls |-> <<>>, ws |-> ws]
    ELSE
    LET log == Head(logs)
        w == IF log.topics = <<>> THEN WorldEmpty ELSE WorldNamed(Head(ws), log.topics[1])
    IN Only({
       IF ~event_.res.ok
       THEN [ok |-> FALSE, events |-> <<>>, cache |-> event_.cache, io |-> event_.io,
             calls |-> CountedCalls(log, event_.calls), ws |-> ws]
       ELSE IF ~event_.res.val.some
       THEN [ok |-> TRUE, events |-> <<>>, cache |-> event_.cache, io |-> event_.io,
             calls |-> CountedCalls(log, event_.calls),
             ws |-> SubSeq(ws, Len(SelectSeq(logs, LAMBDA l : l.topics # <<>>)) + 1, Len(ws))]
       ELSE Only({
           [ok |-> rest.ok,
            events |-> <<event_.res.val.val>> \o rest.events,
            cache |-> rest.cache,
            io |-> event_.io \o rest.io,
            calls |-> CountedCalls(log, event_.calls) \o rest.calls,
            ws |-> rest.ws] :
           rest \in {examine_logs_break(Tail(logs), mode, event_.cache, Tail(ws))}})
       : event_ \in {examine_log(log, mode, c, w.node, w.full, w.partial, w.find,
                                 w.response, w.tagfind)}})

\* the inner loop of decode_logs over the logs of a receipt: the events of the
\* logs examine_log returns an event for, up to the first log it fails on; ws
\* holds the worlds of the logs that have a topic, in order
RECURSIVE examine_logs(_, _, _, _)
examine_logs(logs, mode, c, ws) ==
    IF logs = <<>>
    THEN [ok |-> TRUE, events |-> <<>>, cache |-> c, io |-> <<>>, calls |-> <<>>, ws |-> ws]
    ELSE
    LET log == Head(logs)
        w == IF log.topics = <<>> THEN WorldEmpty ELSE WorldNamed(Head(ws), log.topics[1])
    IN Only({
       IF ~event_.res.ok
       THEN [ok |-> FALSE, events |-> <<>>, cache |-> event_.cache, io |-> event_.io,
             calls |-> CountedCalls(log, event_.calls), ws |-> ws]
       ELSE Only({
           [ok |-> rest.ok,
            events |-> IF event_.res.val.some THEN <<event_.res.val.val>> \o rest.events
                       ELSE rest.events,
            cache |-> rest.cache,
            io |-> event_.io \o rest.io,
            calls |-> CountedCalls(log, event_.calls) \o rest.calls,
            ws |-> rest.ws] :
           rest \in {examine_logs(Tail(logs), mode, event_.cache,
                                  IF log.topics = <<>> THEN ws ELSE Tail(ws))}})
       : event_ \in {examine_log(log, mode, c, w.node, w.full, w.partial, w.find,
                                 w.response, w.tagfind)}})

\* mutant: a transaction without receipt makes the stage fail
RECURSIVE decode_txs_strict(_, _, _, _)
decode_txs_strict(txs, mode, c, ws) ==
    IF txs = <<>>
    THEN [ok |-> TRUE, txs_with_data |-> <<>>, cache |-> c, io |-> <<>>, calls |-> <<>>]
    ELSE
    LET tx == Head(txs)
    IN IF ~tx.receipt.some
       THEN [ok |-> FALSE, txs_with_data |-> <<>>, cache |-> c, io |-> <<>>, calls |-> <<>>]
       ELSE
       Only({
          IF ~events.ok
          THEN [ok |-> FALSE, txs_with_data |-> <<>>, cache |-> events.cache,
                io |-> events.io, calls |-> events.calls]
          ELSE Only({
              [ok |-> rest.ok,
               txs_with_data |-> IF rest.ok
                                 THEN <<[tx EXCEPT !.events = Some(events.events)]>>
                                          \o rest.txs_with_data
                                 ELSE <<>>,
               cache |-> rest.cache,
               io |-> events.io \o rest.io,
               calls |-> events.calls \o rest.calls] :
              rest \in {decode_txs_strict(Tail(txs), mode, events.cache, events.ws)}})
          : events \in {examine_logs(tx.receipt.val.logs, mode, c, ws)}})

\* mutant: every transaction is decoded with the cache the call started with
RECURSIVE decode_txs_unshared(_, _, _, _)
decode_txs_unshared(txs, mode, c, ws) ==
    IF txs = <<>>
    THEN [ok |-> TRUE, txs_with_data |-> <<>>, cache |-> c, io |-> <<>>, calls |-> <<>>]
    ELSE
    LET tx == Head(txs)
    IN IF ~tx.receipt.some THEN decode_txs_unshared(Tail(txs), mode, c, ws)
       ELSE
       Only({
          IF ~events.ok
          THEN [ok |-> FALSE, txs_with_data |-> <<>>, cache |-> events.cache,
                io |-> events.io, calls |-> events.calls]
          ELSE Only({
              [ok |-> rest.ok,
               txs_with_data |-> IF rest.ok
                                 THEN <<[tx EXCEPT !.events = Some(events.events)]>>
                                          \o rest.txs_with_data
                                 ELSE <<>>,
               cache |-> events.cache,
               io |-> events.io \o rest.io,
               calls |-> events.calls \o rest.calls] :
              rest \in {decode_txs_unshared(Tail(txs), mode, c, events.ws)}})
          : events \in {examine_logs(tx.receipt.val.logs, mode, c, ws)}})

\* the outer loop of decode_logs over the visited transactions: a transaction
\* without receipt is passed over, one with a receipt gets its events
RECURSIVE decode_txs(_, _, _, _)
decode_txs(txs, mode, c, ws) ==
    IF txs = <<>>
    THEN [ok |-> TRUE, txs_with_data |-> <<>>, cache |-> c, io |-> <<>>, calls |-> <<>>]
    ELSE
    LET tx == Head(txs)
    IN IF ~tx.receipt.some THEN decode_txs(Tail(txs), mode, c, ws)
       ELSE
       Only({
          IF ~events.ok
          THEN [ok |-> FALSE, txs_with_data |-> <<>>, cache |-> events.cache,
                io |-> events.io, calls |-> events.calls]
          ELSE Only({
              [ok |-> rest.ok,
               txs_with_data |-> IF rest.ok
                                 THEN <<[tx EXCEPT !.events = Some(events.events)]>>
                                          \o rest.txs_with_data
                                 ELSE <<>>,
               cache |-> rest.cache,
               io |-> events.io \o rest.io,
               calls |-> events.calls \o rest.calls] :
              rest \in {decode_txs(Tail(txs), mode, events.cache, events.ws)}})
          : events \in {examine_logs(tx.receipt.val.logs, mode, c, ws)}})

\* the logs with a topic among the receipts of the transactions
RECURSIVE TopicLogs(_)
TopicLogs(txs) ==
    IF txs = <<>> THEN <<>>
    ELSE (IF Head(txs).receipt.some
          THEN SelectSeq(Head(txs).receipt.val.logs, LAMBDA log : log.topics # <<>>)
          ELSE <<>>) \o TopicLogs(Tail(txs))

\* the counters after the lookups of a decode_logs call
RECURSIVE CountedAll(_, _, _)
CountedAll(counter, calls, field) ==
    IF calls = <<>> THEN counter
    ELSE CountedAll(IF Head(calls)[field] > 0
                    THEN [counter EXCEPT ![<<Head(calls).cache, Head(calls).key>>] = Bump(@)]
                    ELSE counter,
                    Tail(calls), field)

\* the answers of the node to the eth_getCode requests of a decode_logs call
CodeReplies(io, ws) ==
    [k \in 1..Len(SelectSeq(io, LAMBDA req : req.to = "eth_getCode")) |->
        IF ws[k] = "nodedown" THEN "fails" ELSE "data"]

\* what the sources hold for each of n logs; no log is examined after the
\* first one whose bytecode fetch fails, so one choice stands for all there
LogWorldNames(n) ==
    {ws \in [1..n -> WorldNames] :
        \A i \in 1..n : \A j \in 1..n :
            (i < j /\ ws[i] = "nodedown") => ws[j] = "nodedown"}

\* most cache entries a run holds when it calls decode_logs
MaxWarm == 0

\* decode_logs: examine_log for every log of every visited transaction
DecodeLogs ==
    \E cap_num \in Caps, mode \in Modes :
        LET visited == SubSeq(transactions, 1, Visited(Len(transactions), cap_num))
        IN /\ Entries(cache) <= MaxWarm
           /\ \E ws \in LogWorldNames(Len(TopicLogs(visited))) :
               \E r \in {decode_txs(visited, mode, cache, ws)} :
                   /\ transactions' = Replaced(r.ok, transactions, r.txs_with_data)
                   /\ cache' = r.cache
                   /\ stage' = [op |-> "decode_logs", cap |-> cap_num, mode |-> mode,
                                ok |-> r.ok, before |-> transactions, io |-> r.io,
                                replies |-> CodeReplies(r.io, ws)]
                   /\ fetches' = CountedAll(fetches, r.calls, "fetched")
                   /\ stored' = CountedAll(stored, r.calls, "stores")
                   /\ UNCHANGED <<last, event>>

NextPipeline == GetTransactionIds \/ GetTransactionData \/ GetReceipts \/ DecodeLogs

SpecPipeline == Init /\ [][NextPipeline]_vars

-----------------------------------------------------------------------------
(* The revision of Cache::try_sig in types.rs.  Its Cache has the maps
   signatures, tags and abis; try_sig reads and writes signatures only. *)

\* Cache::try_sig of types.rs: the value of `match text` is returned as it is
\* for Ok(s); an entry is inserted in the Err arm only
types_try_sig(c, sig, mode, find, response) ==
    LET note == Note(c.signatures, sig)
        text == IF mode = "AvoidApis" THEN sig_to_text(sig, find)
                ELSE method_from_fourbyte_api(sig, response)
        io == IF mode = "AvoidApis"
              THEN <<[to |-> "signatures_db", arg |-> sig]>>
              ELSE <<[to |-> "fourbyte", arg |-> Str0x \o sig]>>
    IN IF note = "PriorSuccess" THEN Hit(c, Some(c.signatures[sig][2]))
       ELSE IF note = "PriorFailure" THEN Hit(c, None)
       ELSE IF text.ok
       THEN [cache |-> c, ret |-> text.val, fetched |-> 1, stores |-> 0, io |-> io]
       ELSE [cache |-> [c EXCEPT !.signatures =
                          Insert(@, sig, <<"PriorFailure", EmptyString>>)],
             ret |-> None, fetched |-> 1, stores |-> 1, io |-> io]

TypesTrySig ==
    \E sig \in SigKeys, mode \in Modes :
        /\ MayLookUp(cache.signatures, sig)
        /\ \E s \in SigSources(sig, mode) :
            \E r \in {types_try_sig(cache, sig, mode, s.find, s.response)} :
                /\ Called("types_try_sig", "signatures", sig, mode,
                          IF mode = "AvoidApis" THEN sig_to_text(sig, s.find)
                          ELSE method_from_fourbyte_api(sig, s.response), r)
                /\ UNCHANGED <<event, transactions, stage>>

NextTypes == TypesTrySig

SpecTypes == Init /\ [][NextTypes]_vars

-----------------------------------------------------------------------------
(* Properties of the cache *)

Ops == {"try_sig", "try_abi", "try_nametags"}
MapName(op) ==
    CASE op = "try_sig" -> "signatures" [] op = "try_abi" -> "abis" [] OTHER -> "nametags"
\* the map of cache c a method reads and writes
MapFor(c, op) ==
    CASE op = "try_sig" -> c.signatures [] op = "try_abi" -> c.abis [] OTHER -> c.nametags
\* the value a method stores with PriorFailure
Sentinel(op) == IF op = "try_nametags" THEN EmptyTags ELSE EmptyString
\* the outcome of the fetch function of a method: a value, no data found, or an error
Outcome(op, res) ==
    IF ~res.ok THEN "error"
    ELSE IF op = "try_nametags" THEN (IF res.val = <<>> THEN "nodata" ELSE "value")
    ELSE IF res.val.some THEN "value" ELSE "nodata"
\* the latest call missed: it invoked its fetch function
Missed == last.op \in Ops /\ last.fetched > 0
\* the entry of the key of the latest call, after the call
LastNote == Note(MapFor(cache, last.op), last.key)
LastEntry == MapFor(cache, last.op)[last.key]

\* C1: in each of the three maps the fetch function is invoked at most once for
\* a key over a run; every lookup after the first one is a hit without a fetch.
C1_FetchAtMostOnce == \A mk \in CounterKeys : fetches[mk] <= 1

\* a key was fetched once and the latest lookup of it was a hit
C1_Witness ==
    /\ last.op = "try_sig" /\ last.fetched = 0 /\ last.io = <<>>
    /\ fetches[<<"signatures", last.key>>] = 1

\* C2: a lookup of a key whose entry is PriorFailure returns None, invokes no
\* fetch and leaves the entry as it is, whatever the sources hold now.
C2_FailureIsFinal ==
    [][(last'.op \in Ops /\ Note(MapFor(cache, last'.op), last'.key) = "PriorFailure")
        => /\ last'.ret = None
           /\ last'.fetched = 0 /\ last'.io = <<>>
           /\ MapFor(cache', last'.op)[last'.key] = MapFor(cache, last'.op)[last'.key]]_vars

\* a prior failure was hit by a lookup whose source holds a value
C2_Witness ==
    /\ last.op = "try_sig" /\ last.fetched = 0 /\ LastNote = "PriorFailure"
    /\ last.mode = "AvoidApis" /\ Outcome(last.op, last.would) = "value"
    /\ last.ret = None

\* every entry of m is an entry of n; every note of m is a terminal note
EntriesKept(m, n) == \A k \in DOMAIN m : k \in DOMAIN n /\ n[k] = m[k]
NoNotVisited(m) == \A k \in DOMAIN m : m[k][1] \in {"PriorSuccess", "PriorFailure"}

\* C3: an entry, once stored, keeps its note and value; no key leaves a map; no
\* entry holds the note NotVisited.
C3_EntriesAreTerminal ==
    [][/\ EntriesKept(cache.signatures, cache'.signatures)
       /\ EntriesKept(cache.nametags, cache'.nametags)
       /\ EntriesKept(cache.abis, cache'.abis)
       /\ NoNotVisited(cache'.signatures)
       /\ NoNotVisited(cache'.nametags)
       /\ NoNotVisited(cache'.abis)]_vars

\* the abis map holds an entry of each note, the latest call having stored one
C3_Witness ==
    /\ \E k1, k2 \in DOMAIN cache.abis :
          cache.abis[k1][1] = "PriorSuccess" /\ cache.abis[k2][1] = "PriorFailure"
    /\ last.op = "try_abi" /\ last.fetched = 1

\* C4: a lookup of a key whose entry is (PriorSuccess, v) returns v, performs no
\* request and leaves the cache unchanged, whatever arguments and sources it has.
C4_SuccessIsReturned ==
    [][(last'.op \in Ops /\ Note(MapFor(cache, last'.op), last'.key) = "PriorSuccess")
        => /\ last'.ret = Some(MapFor(cache, last'.op)[last'.key][2])
           /\ last'.fetched = 0 /\ last'.io = <<>>
           /\ cache' = cache]_vars

\* a cached ABI was returned to a lookup that allows remote sources while they fail
C4_Witness ==
    /\ last.op = "try_abi" /\ last.fetched = 0 /\ last.mode = "UseApis"
    /\ last.ret = Some(StrTodoTodd) /\ Outcome(last.op, last.would) = "error"

C6_ErrorIsFailure ==
    (Missed /\ Outcome(last.op, last.would) = "error")
        => /\ LastNote = "PriorFailure"
           /\ LastEntry = <<"PriorFailure", Sentinel(last.op)>>
           /\ last.ret = None

\* an ABI lookup missed and the request to the registry failed
C6_Witness ==
    /\ last.op = "try_abi" /\ last.fetched = 1 /\ ~last.would.ok
    /\ last.io # <<>> /\ last.ret = None

\* the value inside the fetch function's result
FetchedValue(op, res) == IF op = "try_nametags" THEN res.val ELSE res.val.val

\* C7: a miss whose fetch function returns a value v stores (PriorSuccess, v)
\* and returns v.
C7_ValueIsStored ==
    (Missed /\ Outcome(last.op, last.would) = "value")
        => /\ LastNote = "PriorSuccess"
           /\ LastEntry = <<"PriorSuccess", FetchedValue(last.op, last.would)>>
           /\ last.ret = Some(FetchedValue(last.op, last.would))

\* a signature lookup missed and the local index held two records of the key
C7_Witness ==
    /\ last.op = "try_sig" /\ last.fetched = 1
    /\ last.ret = Some(TextT \o TextT)
    /\ cache.signatures[last.key] = <<"PriorSuccess", TextT \o TextT>>

\* every PriorFailure entry of the map holds the sentinel
FailuresHold(m, sentinel) ==
    \A k \in DOMAIN m : m[k][1] = "PriorFailure" => m[k][2] = sentinel

\* C8: an entry with the note PriorFailure holds the sentinel of its map, and a
\* lookup that finds or stores such an entry returns None.
C8_FailureValueIsHidden ==
    /\ FailuresHold(cache.signatures, EmptyString)
    /\ FailuresHold(cache.abis, EmptyString)
    /\ FailuresHold(cache.nametags, EmptyTags)
    /\ (last.op \in Ops /\ LastNote = "PriorFailure") => last.ret = None

\* a name-tag lookup found the entry of a prior failure
C8_Witness ==
    /\ last.op = "try_nametags" /\ last.fetched = 0
    /\ cache.nametags[last.key] = <<"PriorFailure", EmptyTags>>
    /\ last.ret = None

\* C9: a call inserts no entry when it hits and one entry when it misses, and
\* no key is inserted twice into a map over a run.
C9_OneStorePerKey ==
    /\ last.op \in Ops => last.stores = last.fetched /\ last.stores \in {0, 1}
    /\ \A mk \in CounterKeys : stored[mk] <= 1

\* two keys of a map were stored once each, and the latest call was a hit
C9_Witness ==
    /\ \A k \in SigKeys : stored[<<"signatures", k>>] = 1
    /\ last.op = "try_sig" /\ last.stores = 0

-----------------------------------------------------------------------------
(* Properties of the enrichment of a log *)

\* the directory was asked during the latest examine_log call and its page
\* holds a candidate whose hex_signature is "0x" and the hex of the whole topic[0]
DirectoryHoldsTopic ==
    /\ event # NoEvent
    /\ event.response.some
    /\ event.response.val.ok
    /\ \E i \in 1..Len(event.response.val.val.results) :
          event.response.val.val.results[i].hex_signature
              = Str0x \o HexEncode(event.log.topics[1])

\* C10: in remote-directory mode, when the directory answers with a candidate
\* whose hex_signature equals the full 32-byte topic[0] of the log, the
\* candidate's text_signature is the event name and is cached as PriorSuccess.
C10_FullHashIsAccepted ==
    DirectoryHoldsTopic
        => /\ event.res.val.val.name = Some(TopicText(event.log.topics[1]))
           /\ cache.signatures[TopicKey(event.log.topics[1])]
                 = <<"PriorSuccess", TopicText(event.log.topics[1])>>

\* the directory was asked in remote-directory mode and answered with the entry
\* of the log's topic[0]
C10_Witness ==
    /\ DirectoryHoldsTopic
    /\ event.mode = "UseApis"
    /\ event.log.topics[1] = TopicC
    /\ event.response.val = GoodPage(TopicC)

\* the page the directory answered with during the latest examine_log call
DirectoryAsked == event # NoEvent /\ event.response.some /\ event.response.val.ok
DirectoryResults == event.response.val.val.results

\* C11: in remote-directory mode a candidate whose hex_signature differs from
\* the full 32-byte topic[0] of the log is rejected, also when its first four
\* bytes match: the event name is the text of a candidate with the full hash of
\* the topic, and None, not an error, when the page holds no such candidate.
C11_MismatchIsRejected ==
    DirectoryAsked
        => /\ event.res.ok /\ event.res.val.some
           /\ event.res.val.val.name.some
                => \E i \in 1..Len(DirectoryResults) :
                      /\ DirectoryResults[i].hex_signature
                            = Str0x \o HexEncode(event.log.topics[1])
                      /\ DirectoryResults[i].text_signature = event.res.val.val.name.val

\* the directory answered with the entry of another topic that has the same
\* first four bytes, ahead of the entry of the log's topic
C11_Witness ==
    /\ DirectoryAsked
    /\ event.log.topics[1] = TopicA
    /\ DirectoryResults = <<FullCandidate(TopicB), FullCandidate(TopicA)>>
    /\ event.res.val.val.name = None

-----------------------------------------------------------------------------
(* Properties of the source resolvers *)

\* the source try_sig asks in a mode
SigSourceOf(mode) == IF mode = "AvoidApis" THEN "signatures_db" ELSE "fourbyte"

\* C12: a signature lookup that misses asks exactly one source, the local index
\* in AvoidApis and the remote directory in UseApis, whatever that source
\* answers; the other source is not asked.
C12_OneSourceByMode ==
    (last.op = "try_sig" /\ last.fetched = 1)
        => /\ Len(last.io) = 1
           /\ last.io[1].to = SigSourceOf(last.mode)
           /\ last.io[1].arg = IF last.mode = "AvoidApis" THEN last.key ELSE Str0x \o last.key

\* the remote directory failed in UseApis and only it was asked
C12_Witness ==
    /\ last.op = "try_sig" /\ last.fetched = 1 /\ last.mode = "UseApis"
    /\ ~last.would.ok /\ last.ret = None
    /\ last.io = <<[to |-> "fourbyte", arg |-> Str0x \o last.key]>>

\* the latest call was an ABI lookup that missed, in the mode
AbiMissed(mode) == last.op = "try_abi" /\ last.fetched = 1 /\ last.mode = mode

\* the endpoint answered and found no match
NoMatch(answer) == answer.sent /\ answer.status # StatusOK

\* the order of the tiers, and the tiers a resolution went through
TierOrder == <<"sourcify_full", "sourcify_partial", "decompile">>
TiersAsked == [i \in 1..Len(last.io) |-> last.io[i].to]

\* C13: in UseApis, when the request to the full-match endpoint fails in
\* transport, the partial-match endpoint is asked next, with the same path.
C13_TransportFailureAdvances ==
    (AbiMissed("UseApis") /\ ~last.full.sent)
        => /\ Len(last.io) >= 2
           /\ last.io[1].to = "sourcify_full"
           /\ last.io[2] = [to |-> "sourcify_partial", arg |-> last.io[1].arg]

\* the request to the full-match endpoint failed while the partial-match
\* endpoint holds the document
C13_Witness ==
    /\ AbiMissed("UseApis")
    /\ last.full = RegistryDown /\ last.partial = RegistryMatch

\* C14: the tiers are tried in order: the partial-match endpoint is asked only
\* after the full-match endpoint missed, the decompiler runs only after both
\* endpoints missed and then runs once, and a match at a tier ends the
\* resolution with that tier's summary.
C14_TiersInOrder ==
    (last.op = "try_abi" /\ last.fetched = 1)
        => /\ Len(last.io) <= Len(TierOrder)
           /\ TiersAsked = SubSeq(TierOrder, 1, Len(last.io))
           /\ Len(last.io) >= 2 => NoMatch(last.full)
           /\ Len(last.io) = 3 => NoMatch(last.partial)
           /\ (last.mode = "UseApis" /\ NoMatch(last.full) /\ NoMatch(last.partial))
                => Len(last.io) = 3
           /\ (last.mode = "UseApis" /\ last.full = RegistryMatch)
                => /\ Len(last.io) = 1
                   /\ last.ret = Some(summary_of_abi_from_json(last.full.json.val))
           /\ (last.mode = "UseApis" /\ NoMatch(last.full) /\ last.partial = RegistryMatch)
                => /\ Len(last.io) = 2
                   /\ last.ret = Some(summary_of_abi_from_json(last.partial.json.val))

\* the full-match endpoint matched while the partial-match endpoint holds the
\* document too, and only the first was asked
C14_Witness ==
    /\ AbiMissed("UseApis")
    /\ last.full = RegistryMatch /\ last.partial = RegistryMatch
    /\ TiersAsked = <<"sourcify_full">>

\* C15: an ABI lookup stores PriorFailure only if the bytecode is absent or the
\* decompilation tier itself failed; no answer of the remote endpoints leads
\* to a PriorFailure entry.
C15_FailureOnlyFromLastTier ==
    (last.op = "try_abi" /\ last.fetched = 1 /\ LastNote = "PriorFailure")
        => \/ last.bytecode = <<>>
           \/ \E i \in 1..Len(last.io) : last.io[i].to = "decompile"

\* an ABI lookup of a contract with bytecode stored PriorFailure
C15_Witness ==
    /\ last.op = "try_abi" /\ last.fetched = 1 /\ LastNote = "PriorFailure"
    /\ last.bytecode # <<>>

\* C16: when both endpoints have no match, get_abi returns the placeholder of
\* the decompiler, which try_abi stores as PriorSuccess and returns.
C16_FallbackAlwaysSucceeds ==
    (AbiMissed("UseApis") /\ NoMatch(last.full) /\ NoMatch(last.partial))
        => /\ last.would = Ok(Some(StrTodoDecompiled))
           /\ LastEntry = <<"PriorSuccess", StrTodoDecompiled>>
           /\ last.ret = Some(StrTodoDecompiled)

\* both endpoints answered without a match for a contract without bytecode
C16_Witness ==
    /\ AbiMissed("UseApis")
    /\ last.full = RegistryMiss /\ last.partial = RegistryMiss
    /\ last.bytecode = <<>>
    /\ last.ret = Some(StrTodoDecompiled)

\* C17: in AvoidApis an ABI lookup asks no endpoint of the registry and goes to
\* the decompilation fallback: the decompiler runs on the bytecode and a
\* placeholder is returned.
C17_OfflineDecompiles ==
    AbiMissed("AvoidApis")
        => /\ \A i \in 1..Len(last.io) :
                last.io[i].to \notin {"sourcify_full", "sourcify_partial"}
           /\ \E i \in 1..Len(last.io) :
                /\ last.io[i].to = "decompile"
                /\ last.io[i].arg[1] = HexEncode(last.bytecode)
           /\ last.ret.some

\* C17, amended: in AvoidApis an ABI lookup asks no endpoint of the registry
\* and does not run the decompiler; it returns the placeholder
\* "TODO, get TODD-ABIs", stored as PriorSuccess.
C17_OfflinePlaceholder ==
    AbiMissed("AvoidApis")
        => /\ last.io = <<>>
           /\ last.would = Ok(Some(StrTodoTodd))
           /\ LastEntry = <<"PriorSuccess", StrTodoTodd>>
           /\ last.ret = Some(StrTodoTodd)

\* an ABI lookup in AvoidApis of a contract with bytecode whose registry entry exists
C17_Witness ==
    /\ AbiMissed("AvoidApis")
    /\ last.bytecode # <<>> /\ last.full = RegistryMatch
    /\ last.ret = Some(StrTodoTodd)

\* C19: for a log with topic[0] whose bytecode was fetched, the ABI, the
\* signature text and the name tags are all looked up, each field of the event
\* and each map of the cache is what its lookup alone gives on the cache before
\* the call, whatever the other two lookups give, and the event is returned.
C19_LookupsAreIndependent ==
    [][(event' # NoEvent /\ event'.log.topics # <<>> /\ event'.world.node.code.ok)
        => LET e == event'
               w == e.world
               abi == try_abi(cache, e.log.address, e.mode, w.node.code.val,
                              w.full, w.partial)
               sig_text == try_sig(cache, TopicKey(e.log.topics[1]), e.mode,
                                   w.find, w.response)
               nametags == try_nametags(cache, e.log.address, w.tagfind)
           IN /\ e.res.ok /\ e.res.val.some
              /\ Len(e.calls) = 3
              /\ e.res.val.val.contract.abi = abi.ret
              /\ e.res.val.val.name = sig_text.ret
              /\ e.res.val.val.nametags = nametags.ret
              /\ cache'.abis = abi.cache.abis
              /\ cache'.signatures = sig_text.cache.signatures
              /\ cache'.nametags = nametags.cache.nametags]_vars

\* the name-tag lookup failed and the event holds the ABI and the name
C19_Witness ==
    /\ event # NoEvent /\ event.log.topics # <<>>
    /\ event.res.ok /\ event.res.val.some
    /\ event.calls[3].fetched = 1 /\ event.res.val.val.nametags = None
    /\ event.res.val.val.name = Some(TextT)
    /\ event.res.val.val.contract.abi = Some(StrTodoTodd)

-----------------------------------------------------------------------------
(* Properties of the pipeline *)

\* the transactions the latest stage call visited, and their logs with a topic
StageVisited(s) == SubSeq(s.before, 1, Visited(Len(s.before), s.cap))
HasTopic(log) == log.topics # <<>>
Prefix(s, q) == Len(s) <= Len(q) /\ s = SubSeq(q, 1, Len(s))
GetCodeCalls(io) == SelectSeq(io, LAMBDA req : req.to = "eth_getCode")

\* C18: a failure while enriching one log, the bytecode fetch included, does
\* not make decode_logs fail: it returns Ok and keeps every visited
\* transaction that has a receipt, with its events.
C18_PartialResultsKept ==
    stage.op = "decode_logs"
        => /\ stage.ok
           /\ Len(transactions)
                = Len(SelectSeq(StageVisited(stage), LAMBDA tx : tx.receipt.some))
           /\ \A i \in 1..Len(transactions) : transactions[i].events.some

\* decode_logs met a failing bytecode fetch after it had enriched another log
C18_Witness ==
    /\ stage.op = "decode_logs"
    /\ Len(GetCodeCalls(stage.io)) = 2
    /\ ~stage.ok
    /\ Entries(cache) > 0

\* C20: a log without topic[0] is passed over: no request is made for it, no
\* cache entry is stored for it, no event is added for it, and the logs after
\* it are examined.  Over a decode_logs call the bytecode fetches are those of
\* the logs with a topic, in order, the new cache keys are keys of those logs,
\* and the events of a kept transaction are those of its logs with a topic.
C20_AnonymousLogIsSkipped ==
    [][(stage'.op = "decode_logs" /\ stage' # stage)
        => LET logs == TopicLogs(StageVisited(stage'))
               fetched == GetCodeCalls(stage'.io)
           IN /\ Prefix([i \in 1..Len(fetched) |-> fetched[i].arg],
                        [i \in 1..Len(logs) |-> logs[i].address])
              /\ stage'.ok => Len(fetched) = Len(logs)
              /\ \A i \in 1..Len(stage'.io) :
                    stage'.io[i].to = "eth_getCode"
                        => stage'.io[i].arg \in {logs[j].address : j \in 1..Len(logs)}
              /\ (DOMAIN cache'.abis \ DOMAIN cache.abis)
                    \subseteq {HexEncode(logs[j].address) : j \in 1..Len(logs)}
              /\ (DOMAIN cache'.nametags \ DOMAIN cache.nametags)
                    \subseteq {HexEncode(logs[j].address) : j \in 1..Len(logs)}
              /\ (DOMAIN cache'.signatures \ DOMAIN cache.signatures)
                    \subseteq {TopicKey(logs[j].topics[1]) : j \in 1..Len(logs)}
              /\ stage'.ok
                    => \A k \in 1..Len(transactions') :
                         LET kept == SelectSeq(transactions'[k].receipt.val.logs, HasTopic)
                             events == transactions'[k].events.val
                         IN /\ Len(events) = Len(kept)
                            /\ \A j \in 1..Len(kept) : events[j].raw = kept[j]]_vars

\* decode_logs kept the transaction whose receipt starts with a log without
\* topic, with the one event of the log after it, and stored nothing for the
\* address of the log without topic
C20_Witness ==
    /\ stage.op = "decode_logs" /\ stage.ok
    /\ Len(stage.before) > Len(transactions) /\ Len(transactions) = 1
    /\ transactions[1].receipt.val.logs[1] = LogOf(AddrB, <<>>)
    /\ Len(transactions[1].events.val) = 1
    /\ transactions[1].events.val[1].raw = LogOf(AddrA, <<TopicA>>)
    /\ HexEncode(AddrB) \notin DOMAIN cache.abis \cup DOMAIN cache.nametags

\* min(len, c + 1) for cap_num = Some(c), len for None
Processed(len, cap_num) ==
    IF ~cap_num.some THEN len
    ELSE IF len < cap_num.val + 1 THEN len ELSE cap_num.val + 1
\* the items at indices 0..=c of the input of the latest stage call
FirstItems(s) == SubSeq(s.before, 1, Processed(Len(s.before), s.cap))
LocationsOf(txs) == [i \in 1..Len(txs) |-> txs[i].location]
CappedStages == {"get_transaction_data", "get_receipts", "decode_logs"}
\* the items of txs a stage works on: those that hold what the stage needs
Ready(op, txs) ==
    CASE op = "get_receipts" -> SelectSeq(txs, LAMBDA tx : tx.description.some)
      [] op = "decode_logs" -> SelectSeq(txs, LAMBDA tx : tx.receipt.some)
      [] OTHER -> txs

\* C21: with cap_num = Some(c) a stage processes the items at indices 0..=c of
\* its input, min(len, c + 1) items, and with None every item: a successful
\* stage leaves exactly those items (that hold what the stage needs), and
\* get_transaction_data makes one request for each of them; of 5 items with
\* Some(1), 2 are processed.
C21_CapIsInclusive ==
    /\ Visited(5, Some(1)) = 2
    /\ Visited(5, None) = 5
    /\ (stage.op \in CappedStages /\ stage.ok)
        => /\ LocationsOf(transactions) = LocationsOf(Ready(stage.op, FirstItems(stage)))
           /\ stage.op = "get_transaction_data"
                => /\ Len(stage.io) = Processed(Len(stage.before), stage.cap)
                   /\ \A i \in 1..Len(stage.io) :
                         stage.io[i].arg = stage.before[i].location

\* a stage with cap_num = Some(0) processed one of three items
C21_Witness ==
    /\ stage.op \in CappedStages /\ stage.ok
    /\ stage.cap = Some(0)
    /\ Len(stage.before) = 3
    /\ Len(transactions) = 1
    /\ transactions[1].location = stage.before[1].location

RpcStages == {"get_transaction_data", "get_receipts"}
NoData(s) == \E k \in 1..Len(s.replies) : s.replies[k] = "nodata"
AllData(s) == \A k \in 1..Len(s.replies) : s.replies[k] = "data"

\* C22: when the node answers "no data" for a transaction id that
\* get_transaction_data asks for, or for a hash that get_receipts asks for,
\* the stage returns an error; the item is not passed over.
C22_NoDataIsAnError ==
    (stage.op \in RpcStages /\ NoData(stage))
        => /\ ~stage.ok
           /\ stage.replies[Len(stage.replies)] = "nodata"

\* get_receipts got receipts for two hashes and no data for the third
C22_Witness ==
    /\ stage.op = "get_receipts"
    /\ stage.replies = <<"data", "data", "nodata">>
    /\ ~stage.ok

\* C23: an item that lacks what the stage needs (no description for
\* get_receipts, no receipt for decode_logs) is passed over: when every request
\* the stage made was answered, the stage returns Ok with the items that hold
\* the prerequisite, those after an item without it included.
C23_MissingPrerequisiteIsSkipped ==
    (stage.op \in {"get_receipts", "decode_logs"} /\ AllData(stage))
        => /\ stage.ok
           /\ LocationsOf(transactions)
                = LocationsOf(Ready(stage.op, StageVisited(stage)))

\* decode_logs visited a transaction without receipt and returned the events
\* of the one that has a receipt
C23_Witness ==
    /\ stage.op = "decode_logs" /\ stage.ok
    /\ \E i \in 1..Len(StageVisited(stage)) : ~stage.before[i].receipt.some
    /\ Len(transactions) = 1
    /\ transactions[1].events.some

-----------------------------------------------------------------------------
(* Properties of the enrichment *)

\* the latest examine_log call returned an event
Enriched == event # NoEvent /\ event.res.ok /\ event.res.val.some
LoggedEvent == event.res.val.val
\* the index was asked for the name tags and held no record of the address
IndexHeldNothing ==
    Asked(event.io, "nametags_db") /\ event.world.tagfind = Ok(<<>>)
\* the name tags were served from the entry of an earlier lookup that found none
EmptyTagsCached ==
    /\ ~Asked(event.io, "nametags_db")
    /\ Note(cache.nametags, HexEncode(event.log.address)) = "PriorSuccess"
    /\ cache.nametags[HexEncode(event.log.address)][2] = <<>>

\* C24: the name-tag lookup of an address the local index holds no record of
\* gives an empty result and no error, on the first lookup and on every later
\* lookup of the address: the call returns an event whose nametags are
\* Some of the empty list.
C24_NoTagsIsNotAnError ==
    (event # NoEvent /\ event.log.topics # <<>> /\ event.world.node.code.ok)
        => /\ IndexHeldNothing => Enriched /\ LoggedEvent.nametags = Some(<<>>)
           /\ EmptyTagsCached => Enriched /\ LoggedEvent.nametags = Some(<<>>)

\* a later lookup of an address for which the index held nothing
C24_Witness ==
    /\ Enriched /\ EmptyTagsCached
    /\ LoggedEvent.nametags = Some(<<>>)
    /\ fetches[<<"nametags", HexEncode(event.log.address)>>] = 1

\* the node returned a bytecode from which no metadata link could be read
LinkUnreadable ==
    /\ event # NoEvent /\ event.log.topics # <<>>
    /\ event.world.node.code.ok /\ ~event.world.node.cid.ok

\* C25: a failure to extract the metadata link from the bytecode is not fatal:
\* the call returns an event with source_code_metadata_link = None, the three
\* lookups of the cache ran and the event carries their results.
C25_UnreadableLinkIsNoLink ==
    LinkUnreadable
        => /\ Enriched
           /\ LoggedEvent.contract.source_code_metadata_link = None
           /\ LoggedEvent.contract.bytecode = event.world.node.code.val
           /\ Len(event.calls) = 3
           /\ LoggedEvent.contract.abi = event.calls[1].ret
           /\ LoggedEvent.name = event.calls[2].ret
           /\ LoggedEvent.nametags = event.calls[3].ret

\* no link could be read and the event still has its ABI, name and name tags
C25_Witness ==
    /\ LinkUnreadable /\ Enriched
    /\ LoggedEvent.contract.source_code_metadata_link = None
    /\ LoggedEvent.contract.abi.some
    /\ LoggedEvent.name.some
    /\ LoggedEvent.nametags.some
    /\ \A i \in 1..3 : event.calls[i].fetched = 1

-----------------------------------------------------------------------------
(* Properties of decode_logs *)

\* C26: the bytecode is fetched from the node for every log that has a topic
\* and never taken from the cache: a decode_logs call that examines n such logs
\* makes n eth_getCode requests, one per log in order, also for a log whose
\* address, signature and name tags are all in the cache by then.
C26_BytecodeIsAlwaysFetched ==
    stage.op = "decode_logs"
        => LET logs == TopicLogs(StageVisited(stage))
               fetched == GetCodeCalls(stage.io)
               n == Len(fetched)
           IN /\ n <= Len(logs)
              /\ \A i \in 1..n : fetched[i].arg = logs[i].address
              /\ stage.ok => n = Len(logs)
              /\ ~stage.ok => n >= 1 /\ stage.replies[n] = "fails"

\* two logs of one address were examined: the second found everything in the
\* cache (no request but eth_getCode was made for it) and the bytecode was
\* fetched for both
C26_Witness ==
    /\ stage.op = "decode_logs" /\ stage.ok
    /\ \E i \in 1..(Len(stage.io) - 1) :
          /\ stage.io[i].to = "eth_getCode" /\ stage.io[i].arg = AddrA
          /\ stage.io[i + 1].to = "eth_getCode"
          /\ \E j \in 1..(i - 1) : stage.io[j].to = "eth_getCode" /\ stage.io[j].arg = AddrA
    /\ Len(GetCodeCalls(stage.io)) = 3

\* the events of the transactions, in the order they were built
RECURSIVE EventsOf(_)
EventsOf(txs) ==
    IF txs = <<>> THEN <<>>
    ELSE (IF Head(txs).events.some THEN Head(txs).events.val ELSE <<>>)
         \o EventsOf(Tail(txs))

\* C27: decode_logs leaves its inputs as they were: every transaction it keeps
\* has the location, description and receipt it had, only events is set; the
\* raw field of every event is the log it was built from; and the name of an
\* event is the text the cache holds for its topic key, None when the cache
\* holds a failure.
C27_InputsAreUnmodified ==
    (stage.op = "decode_logs" /\ stage.ok)
        => LET src == Ready("decode_logs", StageVisited(stage))
               events == EventsOf(transactions)
           IN /\ Len(transactions) = Len(src)
              /\ \A k \in 1..Len(src) :
                    /\ transactions[k].events.some
                    /\ transactions[k] = [src[k] EXCEPT !.events = transactions[k].events]
              /\ [j \in 1..Len(events) |-> events[j].raw] = TopicLogs(src)
              /\ \A j \in 1..Len(events) :
                    LET sig == events[j].topic_zero
                    IN /\ sig \in DOMAIN cache.signatures
                       /\ events[j].name
                            = IF cache.signatures[sig][1] = "PriorSuccess"
                              THEN Some(cache.signatures[sig][2]) ELSE None

\* three transactions kept their descriptions and receipts, and the event of
\* the second got its name from the cache entry the first had stored
C27_Witness ==
    /\ stage.op = "decode_logs" /\ stage.ok
    /\ Len(transactions) = 3
    /\ \A k \in 1..3 : /\ transactions[k].receipt = Some(TransactionReceipt(k))
                        /\ transactions[k].description = Some(Transaction(k))
    /\ transactions[2].events.val[1].name = Some(TextT)
    /\ stored[<<"signatures", TopicKey(TopicB)>>] = 1
    /\ Len(SelectSeq(stage.io, LAMBDA req : req.to \in {"signatures_db", "fourbyte"})) = 2

\* C28: the name of an event was resolved for the full topic[0] of its own log:
\* of two logs with different topic[0], the later one never gets the name that
\* was cached while the earlier one was enriched, also when the two topics
\* have the same first four bytes.
C28_NameIsForOwnTopic ==
    (stage.op = "decode_logs" /\ stage.ok)
        => LET events == EventsOf(transactions)
           IN \A i, j \in 1..Len(events) :
                (/\ i < j
                 /\ events[i].raw.topics[1] # events[j].raw.topics[1]
                 /\ events[j].name.some)
                    => events[i].topic_zero # events[j].topic_zero

\* the log with topic B got the name that was stored for the log with topic A:
\* one lookup of the index was made for the key the two topics share
C28_Witness ==
    /\ stage.op = "decode_logs" /\ stage.ok
    /\ Len(transactions) = 3
    /\ transactions[1].events.val[1].raw.topics[1] = TopicA
    /\ transactions[2].events.val[1].raw.topics[1] = TopicB
    /\ transactions[1].events.val[1].name = Some(TextT)
    /\ transactions[2].events.val[1].name = Some(TextT)
    /\ fetches[<<"signatures", TopicKey(TopicA)>>] = 1
    /\ TopicKey(TopicA) = TopicKey(TopicB)

\* no visited item of the latest stage call held what the stage needs
NothingReady(s) == Ready(s.op, StageVisited(s)) = <<>>

C30_ErrorLeavesListUntouched ==
    (stage # NoStage /\ ~stage.ok)
        => /\ transactions = stage.before
           /\ stage.op = "decode_logs"
                => LET logs == TopicLogs(StageVisited(stage))
                   IN \A i \in 1..(Len(GetCodeCalls(stage.io)) - 1) :
                         /\ HexEncode(logs[i].address) \in DOMAIN cache.abis
                         /\ TopicKey(logs[i].topics[1]) \in DOMAIN cache.signatures
                         /\ HexEncode(logs[i].address) \in DOMAIN cache.nametags

\* decode_logs failed on its third bytecode fetch: the three transactions are
\* without events as before and the cache holds what the two logs stored
C30_Witness ==
    /\ stage.op = "decode_logs" /\ ~stage.ok
    /\ stage.replies = <<"data", "data", "fails">>
    /\ transactions = stage.before
    /\ \A i \in 1..3 : transactions[i].receipt.some /\ transactions[i].events = None
    /\ HexEncode(AddrA) \in DOMAIN cache.abis
    /\ HexEncode(AddrB) \notin DOMAIN cache.abis

\* s is q without some of its items, the others in the order of q
RECURSIVE IsSubsequence(_, _)
IsSubsequence(s, q) ==
    IF s = <<>> THEN TRUE
    ELSE IF q = <<>> THEN FALSE
    ELSE IF Head(s) = Head(q) THEN IsSubsequence(Tail(s), Tail(q))
    ELSE IsSubsequence(s, Tail(q))
\* the fields of a transaction that no later stage changes
Identity(tx) == [location |-> tx.location]

\* C31: a successful get_transaction_data, get_receipts or decode_logs leaves
\* in the list only items of the list it was called on, in their order: the
\* list does not grow, it holds at most cap + 1 items after a call with
\* cap_num = Some(cap), and it holds the items at indices 0..=cap that have the
\* stage's prerequisite and no others.
C31_ListOnlyShrinks ==
    (stage.op \in CappedStages /\ stage.ok)
        => /\ Len(transactions) <= Len(stage.before)
           /\ stage.cap.some => Len(transactions) <= stage.cap.val + 1
           /\ IsSubsequence([i \in 1..Len(transactions) |-> Identity(transactions[i])],
                            [i \in 1..Len(stage.before) |-> Identity(stage.before[i])])
           /\ LocationsOf(transactions) = LocationsOf(Ready(stage.op, FirstItems(stage)))

\* get_receipts on a list of two items, the second without description: the
\* first item is the one left
C31_Witness ==
    /\ stage.op = "get_receipts" /\ stage.ok
    /\ Len(stage.before) = 2
    /\ stage.before[1].description.some /\ stage.before[2].description = None
    /\ Len(transactions) = 1
    /\ transactions[1].location = stage.before[1].location

-----------------------------------------------------------------------------
(* Properties of the three maps *)

\* map n is map m except, at most, at key k
SameExceptAt(m, n, k) ==
    /\ DOMAIN m \subseteq DOMAIN n
    /\ DOMAIN n \subseteq DOMAIN m \cup {k}
    /\ \A x \in DOMAIN m : x # k => n[x] = m[x]

\* C32: the three maps are independent: a try_sig call changes at most the
\* entry of its key in signatures, a try_abi call at most the entry of its
\* address in abis, a try_nametags call at most the entry of its address in
\* nametags; the two other maps and every other key are as before the call.
C32_MapsAreIndependent ==
    [][/\ last'.op = "try_sig"
          => /\ SameExceptAt(cache.signatures, cache'.signatures, last'.key)
             /\ cache'.abis = cache.abis /\ cache'.nametags = cache.nametags
       /\ last'.op = "try_abi"
          => /\ SameExceptAt(cache.abis, cache'.abis, last'.key)
             /\ cache'.signatures = cache.signatures /\ cache'.nametags = cache.nametags
       /\ last'.op = "try_nametags"
          => /\ SameExceptAt(cache.nametags, cache'.nametags, last'.key)
             /\ cache'.signatures = cache.signatures /\ cache'.abis = cache.abis]_vars

\* try_sig stored the entry of a second signature
C32_Witness ==
    /\ last.op = "try_sig" /\ last.stores = 1
    /\ Cardinality(DOMAIN cache.signatures) = 2
    /\ last.key \in DOMAIN cache.signatures

-----------------------------------------------------------------------------
(* Properties of the events and of the cache of a run *)

\* the requests of a call other than the bytecode fetches
LookupCalls(io) == SelectSeq(io, LAMBDA req : req.to # "eth_getCode")

\* C33: a transaction kept by decode_logs holds one LoggedEvent per log of its
\* receipt that has a topic[0], in the order of the logs, and the one cache
\* serves all logs and transactions of the call: no source is asked twice for
\* the same key, a key that was in the cache before the call is not fetched,
\* and no key is fetched more than once.
C33_EventsPerLogOneCache ==
    [][(stage'.op = "decode_logs" /\ stage' # stage)
        => /\ stage'.ok
                => \A k \in 1..Len(transactions') :
                     LET kept == SelectSeq(transactions'[k].receipt.val.logs, HasTopic)
                     IN /\ transactions'[k].events.some
                        /\ [j \in 1..Len(transactions'[k].events.val) |->
                               transactions'[k].events.val[j].raw] = kept
           /\ LET asked == LookupCalls(stage'.io)
              IN \A i \in 1..Len(asked) : \A j \in 1..Len(asked) :
                    i # j => asked[i] # asked[j]
           /\ \A mk \in CounterKeys :
                 /\ fetches'[mk] <= fetches[mk] + 1
                 /\ mk[2] \in DOMAIN cache[mk[1]] => fetches'[mk] = fetches[mk]
                 /\ mk[2] \in DOMAIN cache'[mk[1]] \ DOMAIN cache[mk[1]]
                       => fetches'[mk] = Bump(fetches[mk])]_vars

\* decode_logs kept three transactions; the log of the second has the address
\* and the signature key of the log of the first, and its name came from the
\* cache: each of the three lookups was fetched once and no request but the
\* bytecode fetch was made for the second log
C33_Witness ==
    /\ stage.op = "decode_logs" /\ stage.ok
    /\ Len(transactions) = 3
    /\ transactions[1].events.val[1].name.some
    /\ transactions[2].events.val[1].name = transactions[1].events.val[1].name
    /\ transactions[2].events.val[1].contract.abi = transactions[1].events.val[1].contract.abi
    /\ fetches[<<"signatures", TopicKey(TopicA)>>] = 1
    /\ fetches[<<"abis", HexEncode(AddrA)>>] = 1
    /\ fetches[<<"nametags", HexEncode(AddrA)>>] = 1
    /\ Len(LookupCalls(stage.io)) > 0
    /\ \A i \in 1..Len(stage.io) : \A j \in 1..Len(stage.io) :
          (i < j /\ stage.io[i].to # "eth_getCode" /\ stage.io[j].to # "eth_getCode")
              => stage.io[i].arg # stage.io[j].arg \/ stage.io[i].to # stage.io[j].to

-----------------------------------------------------------------------------
(* Properties of the types.rs revision *)

\* C34: in the types.rs revision of Cache::try_sig a lookup whose fetch
\* returns a text or a not-found records the outcome in the signatures map, so
\* that a second lookup of the same signature is a hit and makes no further
\* fetch: after a fetch that did not fail the key has an entry, and no
\* signature is fetched more than once.
C34_FetchedOutcomeIsRecorded ==
    last.op = "types_try_sig"
        => /\ (last.fetched = 1 /\ last.would.ok) => last.key \in DOMAIN cache.signatures
           /\ \A sig \in SigKeys : fetches[<<"signatures", sig>>] <= 1

\* a second lookup of a signature whose first lookup returned a text: the
\* source was asked again, returned the text again, and the map is still empty
C34_Witness ==
    /\ last.op = "types_try_sig"
    /\ last.fetched = 1 /\ last.would.ok /\ last.ret.some
    /\ fetches[<<"signatures", last.key>>] = 2
    /\ stored[<<"signatures", last.key>>] = 0
    /\ cache.signatures = CacheDefault.signatures

-----------------------------------------------------------------------------
(* Properties of the work of a stage *)

\* what a stage asks the node for, for each of the items it works on
RequestKeys(op, txs) ==
    [i \in 1..Len(txs) |->
        IF op = "get_receipts" THEN txs[i].description.val.hash ELSE txs[i].location]
RequestsTo(io, source) == SelectSeq(io, LAMBDA req : req.to = source)

\* C35: a stage ends, with Ok or with Err, after one pass over the visited
\* items and nothing is asked twice: get_transaction_data and get_receipts ask
\* the node once per item, in the order of the list, up to the first request
\* that is not answered with data, and ask nothing after it; decode_logs
\* fetches the bytecode once per log with a topic, in one pass over the logs
\* of the visited receipts, up to the first fetch that fails, and asks no
\* source more often than it fetched bytecode.  The result is Ok exactly when
\* every request to the node was answered with data.
C35_OnePassNoRetry ==
    stage.op \in CappedStages
        => LET n == Len(stage.replies)
               visited == StageVisited(stage)
           IN /\ stage.ok \in BOOLEAN
              /\ \A i \in 1..(n - 1) : stage.replies[i] = "data"
              /\ stage.ok <=> AllData(stage)
              /\ stage.op \in RpcStages
                    => /\ Len(stage.io) = n
                       /\ Prefix([i \in 1..n |-> stage.io[i].arg],
                                 RequestKeys(stage.op, Ready(stage.op, visited)))
              /\ stage.op = "decode_logs"
                    => /\ Len(GetCodeCalls(stage.io)) = n
                       /\ n <= Len(TopicLogs(visited))
                       /\ \A i \in 1..Len(stage.io) :
                             Len(RequestsTo(stage.io, stage.io[i].to)) <= n

\* get_receipts over three described transactions: the second request failed,
\* the stage returned Err after two requests and the third hash was not asked
\* for
C35_Witness ==
    /\ stage.op = "get_receipts" /\ ~stage.ok
    /\ Len(stage.before) = 3 /\ stage.cap = None
    /\ \A i \in 1..3 : stage.before[i].description.some
    /\ stage.replies = <<"data", "fails">>
    /\ Len(stage.io) = 2
    /\ stage.io[2].arg = stage.before[2].description.val.hash

=============================================================================
